---- MODULE Spec2Model ----
(***************************************************************************)
(* A model of pynbody's Gadget-HDF snapshot reader                         *)
(* (src/pynbody/snapshot/gadgethdf.py): the multi-file manager, the family *)
(* map and flat index layout, the loadable-key sets, _load_array and       *)
(* write_array; and, as methods called on their own, the unit inference    *)
(* from a description string, _init_unit_information and _can_load.        *)
(*                                                                         *)
(* A snapshot on disk is a sequence of HDF files (shards).  Every file     *)
(* holds particle groups "PartTypeN" and a header with a MassTable; a      *)
(* group holds datasets, one of which, "ParticleIDs", sizes the group.     *)
(* Dataset values are integers that say where a value comes from, so that  *)
(* a state shows the place each value ended up in.                         *)
(***************************************************************************)
EXTENDS Integers, Sequences, FiniteSets, TLC

VARIABLES
    disk,                   \* the files of the snapshot, as they are on disk
    focus,                  \* [name, fam]: the array and the scope this session works on
    budget,                 \* operations the session may still perform
    mode,                   \* _GadgetHdfMultiFileManager._mode
    open_files,             \* _GadgetHdfMultiFileManager._open_files: index -> mode it was opened in
    family_to_group_map,    \* GadgetHDFSnap._family_to_group_map
    family_slice,           \* SimSnap._family_slice
    gadget_ptype_slice,     \* GadgetHDFSnap._gadget_ptype_slice
    num_particles,          \* SimSnap._num_particles
    loadable_family_keys,   \* GadgetHDFSnap._loadable_family_keys
    loadable_keys,          \* GadgetHDFSnap._loadable_keys
    mass_dtype,             \* GadgetHDFSnap._mass_dtype
    arrays,                 \* the in-memory arrays named focus, one per family
    log,                    \* what the last operation was and how it ended
    prevlog,                \* the same for the operation before it
    iter_next,              \* {k}: a live __iter__ generator that yields file k next; {}: none
    type_map,               \* _default_type_map, as the configuration gives it
    call,                   \* a method that is called on its own: its name and arguments
    ret                     \* how the call ended and what it returned

vars == <<disk, focus, budget, mode, open_files, family_to_group_map, family_slice,
          gadget_ptype_slice, num_particles, loadable_family_keys, loadable_keys,
          mass_dtype, arrays, log, prevlog, iter_next, type_map,
          call, ret>>

snapvars == <<focus, family_to_group_map, family_slice, gadget_ptype_slice, num_particles,
              loadable_family_keys, loadable_keys, mass_dtype>>

\* The variables that the operations of a snapshot leave alone
sidevars == <<iter_next, type_map, call, ret>>

-----------------------------------------------------------------------------
(* Bounds of the model *)

MaxFiles == 2
MaxPart == 2
MaxLayoutPart == 1
MaxOps == 2
MaxOpsLayout == 1
MaxOpsStore == 3
MaxShards == 3
MaxOpsShards == 4
MaxOpsShape == 1

-----------------------------------------------------------------------------
(* Generic helpers *)

NoFun == <<>>

\* No method is called on its own
NoCall == [fn |-> "none"]

Range(f) == {f[x] : x \in DOMAIN f}

RECURSIVE FlattenSeq(_)
FlattenSeq(ss) == IF ss = <<>> THEN <<>> ELSE Head(ss) \o FlattenSeq(Tail(ss))

RECURSIVE SumSeq(_)
SumSeq(s) == IF s = <<>> THEN 0 ELSE Head(s) + SumSeq(Tail(s))

RECURSIVE ProdSeq(_)
ProdSeq(s) == IF s = <<>> THEN 1 ELSE Head(s) * ProdSeq(Tail(s))

Constant(n, v) == [i \in 1..n |-> v]

\* The sequence of the elements of a set of integers, ascending.
RECURSIVE SortedSeq(_)
SortedSeq(S) ==
    IF S = {} THEN <<>>
    ELSE LET m == CHOOSE x \in S : \A y \in S : x <= y
         IN <<m>> \o SortedSeq(S \ {m})

-----------------------------------------------------------------------------
(* Static tables: the configuration the module reads at import *)

None == "None"

\* config.ini [gadgethdf-type-mapping], in the order of family.family_names()
default_type_map ==
    << [fam |-> "dm",  groups |-> <<"PartType1", "PartType2">>],
       [fam |-> "gas", groups |-> <<"PartType0">>] >>

all_hdf_particle_groups ==
    FlattenSeq([k \in 1..Len(default_type_map) |-> default_type_map[k].groups])

GroupNames == Range(all_hdf_particle_groups)

FamilyNames == {default_type_map[k].fam : k \in 1..Len(default_type_map)}

\* int(particle_group.name[-1])
TypeIndex(g) ==
    CASE g = "PartType0" -> 0
      [] g = "PartType1" -> 1
      [] g = "PartType2" -> 2
      [] g = "PartType10" -> 0

\* The characters of a group name after "PartType", which every name starts with
NameTail(g) ==
    CASE g = "PartType0" -> <<0>>
      [] g = "PartType1" -> <<1>>
      [] g = "PartType2" -> <<2>>
      [] g = "PartType10" -> <<1, 0>>

\* s < t for strings, as Python compares them: by the first character that
\* differs, a proper prefix being smaller
RECURSIVE StrLess(_, _)
StrLess(s, t) ==
    IF t = <<>> THEN FALSE
    ELSE IF s = <<>> THEN TRUE
    ELSE IF Head(s) # Head(t) THEN Head(s) < Head(t)
    ELSE StrLess(Tail(s), Tail(t))

\* config.ini [gadgethdf-name-mapping]: <<native name, pynbody name>>, in file order.
\* mass and rho have two native names each, the first being the one write_array uses.
name_mapping ==
    << <<"Coordinates", "pos">>,
       <<"ParticleIDs", "iord">>,
       <<"Mass", "mass">>,
       <<"Masses", "mass">>,
       <<"Density", "rho">>,
       <<"Densities", "rho">>  >>

\* AdaptiveNameMapper(..., return_all_format_names=True)(name): every native name of
\* a pynbody name, in table order; a name the table does not hold passes through.
translate_array_name(name) ==
    LET idx == SelectSeq([k \in 1..Len(name_mapping) |-> k],
                         LAMBDA k : name_mapping[k][2] = name)
    IN IF idx = <<>> THEN <<name>>
       ELSE [j \in 1..Len(idx) |-> name_mapping[idx[j]][1]]

\* AdaptiveNameMapper(name, reverse=True)
translate_array_name_reverse(native) ==
    LET hit == {k \in 1..Len(name_mapping) : name_mapping[k][1] = native}
    IN IF hit = {} THEN native
       ELSE name_mapping[CHOOSE k \in hit : TRUE][2]

mass_pynbody_name == "mass"
eps_pynbody_name == "eps"
size_from_hdf5_key == "ParticleIDs"

-----------------------------------------------------------------------------
(* The files on disk.
   disk = [nfiles, files, soft]: files[i+1] is file i,
     files[i+1] = [groups |-> [group name -> datasets], MassTable |-> [type -> mass]],
     a group's datasets being a function from the dataset names it holds to
     [shape, dtype, unit, vals]; soft is the set of particle types whose
     softening class the Parameters attributes of file 0 name. *)

Hdf(d, i) == d.files[i + 1]

HasGroup(d, i, g) == g \in DOMAIN Hdf(d, i).groups

Group(d, i, g) == Hdf(d, i).groups[g]

DsetSize(ds) == ProdSeq(ds.shape)

\* hdf_group['ParticleIDs'].size; the caller has checked that the dataset is there
NPart(d, i, g) == DsetSize(Group(d, i, g)[size_from_hdf5_key])

-----------------------------------------------------------------------------
(* _GadgetHdfMultiFileManager *)

FileIndices(d) == [k \in 1..d.nfiles |-> k - 1]

\* __iter__, run until it has yielded file `last`: every file up to `last` that is
\* not cached is opened in the current mode and cached.
IterOpen(of, m, last) ==
    [i \in DOMAIN of \cup 0..last |-> IF i \in DOMAIN of THEN of[i] ELSE m]

\* __iter__, run to its end
IterAll(d, of, m) == IterOpen(of, m, d.nfiles - 1)

\* reopen_in_mode that keeps the cache
reopen_in_mode_keep(of, m, newmode) == [mode |-> newmode, open_files |-> of]

\* reopen_in_mode: [mode, open_files] afterwards
reopen_in_mode(of, m, newmode) ==
    IF newmode # m THEN [mode |-> newmode, open_files |-> NoFun]
    ELSE [mode |-> m, open_files |-> of]

\* The access modes of h5py that the code uses
Modes == {"r", "r+"}

\* __init__ that opens every file of the snapshot and caches the handles
manager_init_eager(d, span, m) ==
    [mode |-> m, open_files |-> IterAll(d, NoFun, m), opened |-> 0..(d.nfiles - 1)]

\* __init__: [mode, open_files, opened] afterwards.  span: the name is not a file
\* but the stem of the numbered files, and file 0 is opened to read their number
\* from its header; that handle is not put in _open_files.  opened: the files the
\* constructor has opened.
manager_init(d, span, m) ==
    [mode |-> m, open_files |-> NoFun, opened |-> IF span THEN {0} ELSE {}]

\* The body of the loop of __iter__ with every file opened read-only
OpenFileReadOnly(of, m, i) ==
    IF i \in DOMAIN of THEN of ELSE [j \in DOMAIN of \cup {i} |-> IF j = i THEN "r" ELSE of[j]]

\* The body of the loop of __iter__ for file i: the file is opened in the current
\* mode unless it is cached
OpenFile(of, m, i) ==
    IF i \in DOMAIN of THEN of ELSE [j \in DOMAIN of \cup {i} |-> IF j = i THEN m ELSE of[j]]

\* A handle as a caller gets it: the file and the mode it was opened in
Handle(of, i) == [index |-> i, mode |-> of[i]]

\* One next() on an __iter__ generator that is about to yield file k:
\* [status, handles, open_files, next]
iter_step(d, of, m, k) ==
    IF k < d.nfiles
    THEN [status |-> "ok", handles |-> <<Handle(OpenFile(of, m, k), k)>>,
          open_files |-> OpenFile(of, m, k), next |-> {k + 1}]
    ELSE [status |-> "StopIteration", handles |-> <<>>, open_files |-> of, next |-> {}]

\* __getitem__ that opens file i alone
getitem_direct(d, of, m, i) ==
    IF i \in DOMAIN of
    THEN [status |-> "ok", handles |-> <<Handle(of, i)>>, open_files |-> of]
    ELSE IF i < 0
    THEN [status |-> "ValueError", handles |-> <<>>, open_files |-> of]
    ELSE IF i >= d.nfiles
    THEN [status |-> "StopIteration", handles |-> <<>>, open_files |-> IterAll(d, of, m)]
    ELSE [status |-> "ok", handles |-> <<Handle(OpenFile(of, m, i), i)>>,
          open_files |-> OpenFile(of, m, i)]

\* __getitem__(i): [status, handles, open_files].  A handle that is cached is
\* returned; otherwise next(itertools.islice(self, i, i + 1)) runs a new generator
\* up to file i.  islice refuses a negative start with ValueError; for i beyond
\* the last file the generator opens every file and ends, and next() raises
\* StopIteration.
getitem(d, of, m, i) ==
    IF i \in DOMAIN of
    THEN [status |-> "ok", handles |-> <<Handle(of, i)>>, open_files |-> of]
    ELSE IF i < 0
    THEN [status |-> "ValueError", handles |-> <<>>, open_files |-> of]
    ELSE IF i >= d.nfiles
    THEN [status |-> "StopIteration", handles |-> <<>>, open_files |-> IterAll(d, of, m)]
    ELSE [status |-> "ok", handles |-> <<Handle(IterOpen(of, m, i), i)>>,
          open_files |-> IterOpen(of, m, i)]

\* iter_particle_groups_with_name: the files, in order, that hold the group and in
\* it the ParticleIDs dataset, as <<file index, group name>>
iter_particle_groups_with_name(d, g) ==
    LET sel == SelectSeq(FileIndices(d),
                         LAMBDA i : /\ HasGroup(d, i, g)
                                    /\ size_from_hdf5_key \in DOMAIN Group(d, i, g))
    IN [k \in 1..Len(sel) |-> <<sel[k], g>>]

-----------------------------------------------------------------------------
(* GadgetHDFSnap: what __init__ computes from the files *)

\* __init_family_map without the break: a group is appended once for every file that
\* has it as a key
family_map_every_file(tm, d) ==
    LET holders(g) == {i \in 0..(d.nfiles - 1) : HasGroup(d, i, g)}
        my_types(k) == FlattenSeq([j \in 1..Len(tm[k].groups) |->
                                      [n \in 1..Cardinality(holders(tm[k].groups[j])) |->
                                          tm[k].groups[j]]])
        kept == {k \in 1..Len(tm) : my_types(k) # <<>>}
    IN [f \in {tm[k].fam : k \in kept} |->
           my_types(CHOOSE k \in kept : tm[k].fam = f)]

\* __init_family_map: for every family of the type map, its groups that are a key
\* of some file, in table order; a family with none is left out.
family_map_of(tm, d) ==
    LET present(g) == \E i \in 0..(d.nfiles - 1) : HasGroup(d, i, g)
        my_types(k) == SelectSeq(tm[k].groups, present)
        kept == {k \in 1..Len(tm) : my_types(k) # <<>>}
    IN [f \in {tm[k].fam : k \in kept} |->
           my_types(CHOOSE k \in kept : tm[k].fam = f)]

\* __init_family_map with the type map of config.ini
init_family_map(d) == family_map_of(default_type_map, d)

\* The order of the keys of _family_to_group_map (a dict keeps insertion order)
FamilyKeys(fmap) ==
    LET all == [k \in 1..Len(default_type_map) |-> default_type_map[k].fam]
    IN SelectSeq(all, LAMBDA f : f \in DOMAIN fmap)

\* sorted(): family j of keys comes before family k, by the name of its first group
\* and, the names being equal, by its place in keys
SortsBefore(fmap, keys, j, k) ==
    \/ StrLess(NameTail(fmap[keys[j]][1]), NameTail(fmap[keys[k]][1]))
    \/ /\ fmap[keys[j]][1] = fmap[keys[k]][1]
       /\ j < k

\* _families_ordered: sorted(all_families, key=first group name); the key is a string
families_ordered(fmap) ==
    LET keys == FamilyKeys(fmap)
    IN [p \in 1..Len(keys) |->
           keys[CHOOSE k \in 1..Len(keys) :
                    Cardinality({j \in 1..Len(keys) : SortsBefore(fmap, keys, j, k)}) = p - 1]]

\* ptype_slice_len with the sum over the files lost: only the first file counts
ptype_slice_len_first_file(d, g) ==
    LET its == iter_particle_groups_with_name(d, g)
    IN IF its = <<>> THEN 0 ELSE NPart(d, its[1][1], its[1][2])

\* The inner loop of __init_file_map: the summed ParticleIDs sizes of one group
ptype_slice_len(d, g) ==
    LET its == iter_particle_groups_with_name(d, g)
    IN SumSeq([k \in 1..Len(its) |-> NPart(d, its[k][1], its[k][2])])

\* One family of __init_file_map: the slices of its groups, laid from
\* ptype_slice_start on
RECURSIVE PtypeSlices(_, _, _)
PtypeSlices(d, groups, ptype_slice_start) ==
    IF groups = <<>> THEN <<>>
    ELSE <<[group |-> Head(groups), start |-> ptype_slice_start,
            stop |-> ptype_slice_start + ptype_slice_len(d, Head(groups))]>>
         \o PtypeSlices(d, Tail(groups),
                        ptype_slice_start + ptype_slice_len(d, Head(groups)))

\* family_length: the summed lengths of the group slices ps of one family
family_length(ps) == SumSeq([k \in 1..Len(ps) |-> ps[k].stop - ps[k].start])

\* The entry of one family: its slice and the slices ps of its groups
FamilyEntry(fam, family_slice_start, ps) ==
    [fam |-> fam, start |-> family_slice_start,
     stop |-> family_slice_start + family_length(ps), ptypes |-> ps]

\* `family_slice_start += family_length` lost
FamilySliceStartKept(family_slice_start, len) == family_slice_start

\* family_slice_start += family_length
NextFamilySliceStart(family_slice_start, len) == family_slice_start + len

\* __init_file_map over the families in order: one entry per family, holding its
\* slice and the slices of its groups
RECURSIVE FileMapEntries(_, _, _, _)
\* The entries from the entry e of the first of fams on
FileMapEntriesFrom(d, fmap, fams, e) ==
    <<e>> \o FileMapEntries(d, fmap, Tail(fams),
                            NextFamilySliceStart(e.start, e.stop - e.start))

FileMapEntries(d, fmap, fams, family_slice_start) ==
    IF fams = <<>> THEN <<>>
    ELSE FileMapEntriesFrom(d, fmap, fams,
             FamilyEntry(Head(fams), family_slice_start,
                         PtypeSlices(d, fmap[Head(fams)], family_slice_start)))

\* What __init_file_map leaves, from the entries es of the families:
\* [family_slice, gadget_ptype_slice, num_particles]
FileMapOf(fmap, es) ==
    LET ps == FlattenSeq([k \in 1..Len(es) |-> es[k].ptypes])
    IN [family_slice |->
            [f \in DOMAIN fmap |->
                LET e == es[CHOOSE k \in 1..Len(es) : es[k].fam = f]
                IN [start |-> e.start, stop |-> e.stop]],
        gadget_ptype_slice |->
            [g \in {ps[k].group : k \in 1..Len(ps)} |->
                LET p == ps[CHOOSE k \in 1..Len(ps) : ps[k].group = g]
                IN [start |-> p.start, stop |-> p.stop]],
        num_particles |-> IF es = <<>> THEN 0 ELSE es[Len(es)].stop]

\* __init_file_map
init_file_map(d, fmap) == FileMapOf(fmap, FileMapEntries(d, fmap, families_ordered(fmap), 0))

\* SimSnap.families(): the families that hold particles, ordered by where their
\* slice starts
FamiliesOf(fslice) ==
    LET nonempty == {f \in DOMAIN fslice : fslice[f].start # fslice[f].stop}
        starts == SortedSeq({fslice[f].start : f \in nonempty})
    IN [j \in 1..Len(starts) |-> CHOOSE f \in nonempty : fslice[f].start = starts[j]]

\* _all_hdf_groups_in_family
all_hdf_groups_in_family(d, fmap, fam) ==
    FlattenSeq([k \in 1..Len(fmap[fam]) |-> iter_particle_groups_with_name(d, fmap[fam][k])])

\* _all_hdf_groups
all_hdf_groups(d) ==
    FlattenSeq([k \in 1..Len(all_hdf_particle_groups) |->
                   iter_particle_groups_with_name(d, all_hdf_particle_groups[k])])

\* _have_softening_for_particle_type: the class key of the type is an attribute
have_softening_for_particle_type(d, t) == t \in d.soft

\* _have_softening_for_particle_group
have_softening_for_particle_group(d, g) == have_softening_for_particle_type(d, TypeIndex(g))

\* _get_hdf_allarray_keys
get_hdf_allarray_keys(d, i, g) == DOMAIN Group(d, i, g)

\* __init_loadable_keys with can_get_eps starting False and |= for &=
family_loadable_keys_any_eps(d, fmap, fam) ==
    LET its == all_hdf_groups_in_family(d, fmap, fam)
        fromdisk == UNION {{translate_array_name_reverse(key) :
                               key \in get_hdf_allarray_keys(d, its[k][1], its[k][2])} :
                           k \in 1..Len(its)}
        can_get_eps == \E k \in 1..Len(its) : have_softening_for_particle_group(d, its[k][2])
    IN {mass_pynbody_name} \cup fromdisk
         \cup (IF can_get_eps THEN {eps_pynbody_name} ELSE {})

\* __init_loadable_keys, the set of one family
family_loadable_keys(d, fmap, fam) ==
    LET its == all_hdf_groups_in_family(d, fmap, fam)
        fromdisk == UNION {{translate_array_name_reverse(key) :
                               key \in get_hdf_allarray_keys(d, its[k][1], its[k][2])} :
                           k \in 1..Len(its)}
        can_get_eps == \A k \in 1..Len(its) : have_softening_for_particle_group(d, its[k][2])
    IN {mass_pynbody_name} \cup fromdisk
         \cup (IF can_get_eps THEN {eps_pynbody_name} ELSE {})

\* The attribute _loadable_keys when __init_loadable_keys returned before setting it
Unset == {"<unset>"}

\* __init_loadable_keys with the key sets of the families united, not intersected
LoadableKeysUnited(all_fams, perfam) ==
    [family |-> perfam,
     all |-> IF all_fams = <<>> THEN Unset
             ELSE UNION {perfam[f] : f \in DOMAIN perfam}]

\* What __init_loadable_keys leaves, from the key sets perfam of the families
\* all_fams: [family, all]; with no family the method returns before it sets
\* _loadable_keys
LoadableKeysFrom(all_fams, perfam) ==
    [family |-> perfam,
     all |-> IF all_fams = <<>> THEN Unset
             ELSE {key \in perfam[all_fams[1]] : \A f \in DOMAIN perfam : key \in perfam[f]}]

\* __init_loadable_keys
init_loadable_keys(d, fmap, fslice) ==
    LoadableKeysFrom(FamiliesOf(fslice),
                     [f \in Range(FamiliesOf(fslice)) |-> family_loadable_keys(d, fmap, f)])

\* __infer_mass_dtype: float64, or the dtype of the last Coordinates dataset met
infer_mass_dtype(d) ==
    LET its == all_hdf_groups(d)
        withpos == {k \in 1..Len(its) : "Coordinates" \in DOMAIN Group(d, its[k][1], its[k][2])}
    IN IF withpos = {} THEN "float64"
       ELSE LET k == CHOOSE x \in withpos : \A y \in withpos : y <= x
            IN Group(d, its[k][1], its[k][2])["Coordinates"].dtype

-----------------------------------------------------------------------------
(* Datasets as _load_array sees them *)

KeyErr == [kind |-> "KeyError"]

NoDataset == [kind |-> "unbound"]

\* _DummyHDFData(value, length, dtype): it has no attrs
DummyHDFData(value, length, dtype) ==
    [kind |-> "dummy", shape |-> <<length>>, dtype |-> dtype, unit |-> "NoUnit",
     vals |-> Constant(length, value)]

RealDataset(ds) ==
    [kind |-> "real", shape |-> ds.shape, dtype |-> ds.dtype, unit |-> ds.unit,
     vals |-> ds.vals]

\* len(dataset): the first dimension
DsetLen(ds) == ds.shape[1]

\* _get_softening_for_particle_type: None without the class key of the type, or the
\* softening of the type's class (here one value per type)
SofteningOf(t) == 70 + t

\* _get_hdf_dataset without the header-mass and softening branches
get_hdf_dataset_on_disk(d, i, g, hdf_name) ==
    IF hdf_name \in DOMAIN Group(d, i, g) THEN RealDataset(Group(d, i, g)[hdf_name])
    ELSE KeyErr

\* The branches of _get_hdf_dataset on the group grp of file i: canon is the pynbody
\* name of hdf_name, pgid the particle type of the group.  A KeyError or IndexError
\* in the mass branch falls through to the dataset of the group.
HdfDatasetIn(d, i, g, hdf_name, grp, canon, pgid) ==
    IF canon = mass_pynbody_name /\ pgid \in DOMAIN Hdf(d, i).MassTable
         /\ Hdf(d, i).MassTable[pgid] > 0 /\ size_from_hdf5_key \in DOMAIN grp
    THEN DummyHDFData(Hdf(d, i).MassTable[pgid], NPart(d, i, g), mass_dtype)
    ELSE IF canon = eps_pynbody_name /\ have_softening_for_particle_type(d, pgid)
    THEN IF size_from_hdf5_key \in DOMAIN grp
         THEN DummyHDFData(SofteningOf(pgid), NPart(d, i, g), mass_dtype)
         ELSE KeyErr
    ELSE IF hdf_name \in DOMAIN grp THEN RealDataset(grp[hdf_name])
    ELSE KeyErr

\* _get_hdf_dataset on group g of file i, which holds the group
get_hdf_dataset(d, i, g, hdf_name) ==
    HdfDatasetIn(d, i, g, hdf_name, Group(d, i, g),
                 translate_array_name_reverse(hdf_name), TypeIndex(g))

\* _get_units_from_hdf_attr: NoUnit without a VarDescription, else the unit the
\* attributes resolve to (kept with the dataset)
get_units_from_hdf_attr(ds) == ds.unit

\* What _get_hdf_dataset gives for each candidate name in group g of file i
Candidates(d, i, g, names) ==
    [k \in 1..Len(names) |-> get_hdf_dataset(d, i, g, names[k])]

\* The candidates that did not raise KeyError
Resolved(cands) == {k \in 1..Len(cands) : cands[k].kind # "KeyError"}

\* A try/except loop over the candidates that breaks at the first that resolves
FirstResolved(cands, before) ==
    IF Resolved(cands) = {} THEN before
    ELSE cands[CHOOSE k \in Resolved(cands) : \A j \in Resolved(cands) : k <= j]

\* A try/except loop over the candidates without a break: each that resolves is
\* assigned in turn, the last one stays
LastResolved(cands, before) ==
    IF Resolved(cands) = {} THEN before
    ELSE cands[CHOOSE k \in Resolved(cands) : \A j \in Resolved(cands) : j <= k]

\* The try/except loop over the candidate names of __get_dtype_dims_and_units in one
\* file: the first candidate that resolves, or `before` when none does (a file
\* without the group raises KeyError for every candidate)
FirstCandidate(d, i, g, names, before) ==
    IF HasGroup(d, i, g) THEN FirstResolved(Candidates(d, i, g, names), before)
    ELSE before

\* What the loop over the files keeps after file i, where representative_dset is rep
Probed(st, i, rep) ==
    [rep |-> rep, hdf |-> i, last |-> i,
     units |-> IF rep.kind = "real" THEN get_units_from_hdf_attr(rep) ELSE st.units]

\* The loop over the files of __get_dtype_dims_and_units, from file i on
RECURSIVE ProbeFiles(_, _, _, _, _)
\* File i of the loop, rep being what its candidates left in representative_dset
ProbeFile(d, g, names, i, st, rep) ==
    IF rep.kind = "unbound" THEN ProbeFiles(d, g, names, i + 1, [st EXCEPT !.last = i])
    ELSE IF DsetLen(rep) # 0 THEN Probed(st, i, rep)
    ELSE ProbeFiles(d, g, names, i + 1, Probed(st, i, rep))

ProbeFiles(d, g, names, i, st) ==
    IF i >= d.nfiles THEN st
    ELSE ProbeFile(d, g, names, i, st, FirstCandidate(d, i, g, names, st.rep))

\* __get_dtype_dims_and_units after its loop over the files, which left st; g0 is
\* the first group of the family.  [status, dtype, dy, units, last], last being the
\* last file the loop opened
DtypeDimsAndUnits(d, g0, st) ==
    LET fail(e) == [status |-> e, dtype |-> "", dy |-> 0, units |-> "NoUnit", last |-> st.last]
        npart == DsetLen(Group(d, st.hdf, g0)[size_from_hdf5_key])
    IN IF st.rep.kind = "unbound" THEN fail("KeyError")
       ELSE IF ~(HasGroup(d, st.hdf, g0) /\ size_from_hdf5_key \in DOMAIN Group(d, st.hdf, g0))
       THEN fail("KeyError")
       ELSE IF DsetLen(st.rep) # npart /\ npart = 0 THEN fail("ZeroDivisionError")
       ELSE [status |-> "ok", dtype |-> st.rep.dtype,
             dy |-> IF DsetLen(st.rep) # npart THEN DsetLen(st.rep) \div npart
                    ELSE IF Len(st.rep.shape) > 1 THEN st.rep.shape[2] ELSE 1,
             units |-> st.units, last |-> st.last]

\* self._family_to_group_map[fam][0], fam being self.families()[0] for fam None
FirstGroup(fam) ==
    family_to_group_map[IF fam = None THEN FamiliesOf(family_slice)[1] ELSE fam][1]

\* __get_dtype_dims_and_units on the group g0
ProbeGroup(d, g0, translated_names) ==
    DtypeDimsAndUnits(d, g0,
        ProbeFiles(d, g0, translated_names, 0,
                   [rep |-> NoDataset, hdf |-> -1, last |-> -1, units |-> "NoUnit"]))

\* __get_dtype_dims_and_units.  The dtype it gives a "Mass" dataset is overwritten
\* by _load_array for the mass array, the only array with that native name.
get_dtype_dims_and_units(d, fam, translated_names) ==
    ProbeGroup(d, FirstGroup(fam), translated_names)

\* The loop over the candidate names in the fill step of _load_array: every
\* candidate that resolves is assigned in turn, the loop has no break; when none
\* resolves, `dataset` keeps what the iteration before left in it
FillCandidate(d, i, g, names, before) == LastResolved(Candidates(d, i, g, names), before)

\* `i1 = i0 + npart` with the addition lost
OffsetKept(i0, npart) == i0

\* i1 = i0 + npart
NextOffset(i0, npart) == i0 + npart

\* `assert target_array.size == dataset.size` with the assertion lost
SizesAgreeAlways(npart, dy, dataset) == TRUE

\* assert target_array.size == dataset.size: the slice [i0:i1] of the array holds
\* npart rows of dy values
SizesAgree(npart, dy, dataset) == npart * dy = DsetSize(dataset)

\* target_array.reshape(dataset.shape): numpy raises ValueError unless the sizes
\* are the same
ReshapeFits(npart, dy, dataset) == npart * dy = DsetSize(dataset)

\* The fill loop of _load_array over the groups `pairs` of one family.
\* st = [i0, dataset, vals, status, last]
RECURSIVE FillPairs(_, _, _, _, _)
\* The first of pairs, a group of file i with npart particles, `dataset` being what
\* the loop over the candidate names left.  The slice [i0:i1] of the array holds
\* npart rows, so its size is npart * dy.
FillGroup(d, pairs, names, dy, st, i, npart, dataset) ==
    LET i1 == NextOffset(st.i0, npart)
        seen == [st EXCEPT !.last = IF i > @ THEN i ELSE @]
    IN IF npart = 0 THEN FillPairs(d, Tail(pairs), names, dy, seen)
       ELSE IF dataset.kind = "unbound"
       THEN [seen EXCEPT !.status = "UnboundLocalError"]
       ELSE IF ~SizesAgree(npart, dy, dataset)
       THEN [seen EXCEPT !.status = "AssertionError", !.dataset = dataset]
       ELSE IF ~ReshapeFits(npart, dy, dataset)
       THEN [seen EXCEPT !.status = "ValueError", !.dataset = dataset]
       ELSE FillPairs(d, Tail(pairs), names, dy,
                [seen EXCEPT !.i0 = i1, !.dataset = dataset,
                             !.vals = [k \in 1..Len(@) |->
                                          IF k > st.i0 * dy /\ k <= i1 * dy
                                          THEN dataset.vals[k - st.i0 * dy]
                                          ELSE @[k]]])

FillPairs(d, pairs, names, dy, st) ==
    IF pairs = <<>> \/ st.status # "ok" THEN st
    ELSE FillGroup(d, pairs, names, dy, st, Head(pairs)[1],
                   NPart(d, Head(pairs)[1], Head(pairs)[2]),
                   FillCandidate(d, Head(pairs)[1], Head(pairs)[2], names, st.dataset))

\* The length of self[fam]; SimSnap gives a family it has no slice for the slice (0, 0)
FamilyLength(fam) ==
    IF fam \in DOMAIN family_slice THEN family_slice[fam].stop - family_slice[fam].start
    ELSE 0

\* _create_array: a zero-filled array over the family
NewArray(fam, dy, dtype, units) ==
    [dy |-> dy, dtype |-> dtype, units |-> units,
     vals |-> Constant(FamilyLength(fam) * dy, 0)]

\* What the loop over the families carries on with after the groups of fam, where
\* the fill loop left st
FamilyFilled(d, acc, fam, st) ==
    [arrs |-> [acc.arrs EXCEPT ![fam].vals = st.vals], dataset |-> st.dataset,
     status |-> st.status,
     last |-> IF st.status = "ok" THEN d.nfiles - 1 ELSE st.last]

\* One family of the loop of _load_array
FillFamily(d, names, dy, acc, fam) ==
    FamilyFilled(d, acc, fam,
        FillPairs(d, all_hdf_groups_in_family(d, family_to_group_map, fam), names, dy,
                  [i0 |-> 0, dataset |-> acc.dataset, vals |-> acc.arrs[fam].vals,
                   status |-> "ok", last |-> acc.last]))

\* The loop over the families of _load_array.  acc = [arrs, dataset, status, last]
RECURSIVE FillFamilies(_, _, _, _, _)
FillFamilies(d, fams, names, dy, acc) ==
    IF fams = <<>> \/ acc.status # "ok" THEN acc
    ELSE FillFamilies(d, Tail(fams), names, dy, FillFamily(d, names, dy, acc, Head(fams)))

\* loadable_keys(fam), and what reading it raises when it is not there
LoadableKeysStatus(fam) ==
    IF fam = None
    THEN (IF loadable_keys = Unset THEN "AttributeError" ELSE "ok")
    ELSE (IF fam \in DOMAIN loadable_family_keys THEN "ok" ELSE "KeyError")

LoadableKeysOf(fam) == IF fam = None THEN loadable_keys ELSE loadable_family_keys[fam]

\* _family_has_loadable_array with the test lost
family_has_loadable_array_always(fam, name) == TRUE

\* _family_has_loadable_array
family_has_loadable_array(fam, name) == name \in LoadableKeysOf(fam)

\* SimArray.set_default_units: the unit the snapshot's unit system gives an array
\* of this name
set_default_units(array_name) == "default " \o array_name

\* The unit _load_array leaves on the array it created, `units` being what
\* __get_dtype_dims_and_units returned
AttachedUnits(array_name, units) ==
    IF units # None THEN units ELSE set_default_units(array_name)

\* How _load_array ends when it raises before it created an array
Rejected(e, last) == [status |-> e, created |-> FALSE, arrs |-> NoFun, last |-> last]

\* How _load_array ends after its fill loops, which left `done`
Filled(done) ==
    [status |-> done.status, created |-> TRUE, arrs |-> done.arrs, last |-> done.last]

\* _load_array from the call of __get_dtype_dims_and_units on, which gave ddu
LoadProbed(d, array_name, fam, translated_names, ddu) ==
    LET dtype == IF array_name = mass_pynbody_name THEN mass_dtype ELSE ddu.dtype
        scope == IF fam = None THEN DOMAIN family_slice ELSE {fam}
        all_fams_to_load == IF fam = None THEN FamiliesOf(family_slice) ELSE <<fam>>
    IN IF ddu.status # "ok" THEN Rejected(ddu.status, ddu.last)
       ELSE Filled(FillFamilies(d, all_fams_to_load, translated_names, ddu.dy,
                       [arrs |-> [f \in scope |-> NewArray(f, ddu.dy, dtype,
                                                 AttachedUnits(array_name, ddu.units))],
                        dataset |-> NoDataset, status |-> "ok", last |-> ddu.last]))

\* _load_array(array_name, fam) on the files d:
\*   [status, created, arrs, last]: how it ends, whether the destination array was
\*   created, the arrays of the families of the scope, the last file it opened
load_array(d, array_name, fam) ==
    IF LoadableKeysStatus(fam) # "ok" THEN Rejected(LoadableKeysStatus(fam), -1)
    ELSE IF ~family_has_loadable_array(fam, array_name) THEN Rejected("OSError", -1)
    ELSE LoadProbed(d, array_name, fam, translate_array_name(array_name),
                    get_dtype_dims_and_units(d, fam, translate_array_name(array_name)))

-----------------------------------------------------------------------------
(* write_array *)

\* The shape of rows i0:i1 of an in-memory array: (n,) for a 1-D array, else (n, dy)
SliceShape(arr, npart) == IF arr.dy = 1 THEN <<npart>> ELSE <<npart, arr.dy>>

\* _get_or_create_hdf_dataset on group g of file i: [status, d], d holding the
\* dataset afterwards.  require_dataset(..., exact=True) reuses a dataset of the
\* same shape and dtype, refuses any other, and creates a zero-filled one when
\* the group holds none of that name.
get_or_create_hdf_dataset(d, i, g, hdf_name, shape, dtype) ==
    LET grp == Group(d, i, g)
    IN IF translate_array_name_reverse(hdf_name) = mass_pynbody_name
       THEN [status |-> "OSError: mass", d |-> d]
       ELSE IF hdf_name \in DOMAIN grp
       THEN IF grp[hdf_name].shape = shape /\ grp[hdf_name].dtype = dtype
            THEN [status |-> "ok", d |-> d]
            ELSE [status |-> "TypeError", d |-> d]
       ELSE [status |-> "ok",
             d |-> [d EXCEPT !.files[i + 1].groups[g] =
                       (hdf_name :> [shape |-> shape, dtype |-> dtype, unit |-> "NoUnit",
                                     vals |-> Constant(ProdSeq(shape), 0)]) @@ grp]]

\* dataset.write_direct(values)
write_direct(d, i, g, hdf_name, values) ==
    [d EXCEPT !.files[i + 1].groups[g][hdf_name].vals = values]

\* The loop of write_array over the groups `pairs` of one family.
\* st = [d, i0, status, last]; iofail: the first write_direct fails
RECURSIVE WritePairs(_, _, _, _, _)
\* The first of pairs, group g of file i with npart particles, got being what
\* _get_or_create_hdf_dataset gave
WriteGroup(pairs, hdf_name, arr, iofail, st, i, g, npart, got) ==
    LET i1 == st.i0 + npart
        seen == [st EXCEPT !.last = IF i > @ THEN i ELSE @]
    IN IF got.status # "ok" THEN [seen EXCEPT !.status = got.status]
       ELSE IF iofail THEN [seen EXCEPT !.status = "OSError: write", !.d = got.d]
       ELSE WritePairs(Tail(pairs), hdf_name, arr, iofail,
                [seen EXCEPT !.d = write_direct(got.d, i, g, hdf_name,
                                       SubSeq(arr.vals, st.i0 * arr.dy + 1, i1 * arr.dy)),
                             !.i0 = i1])

WritePairs(pairs, hdf_name, arr, iofail, st) ==
    IF pairs = <<>> \/ st.status # "ok" THEN st
    ELSE WriteGroup(pairs, hdf_name, arr, iofail, st, Head(pairs)[1], Head(pairs)[2],
                    NPart(st.d, Head(pairs)[1], Head(pairs)[2]),
                    get_or_create_hdf_dataset(st.d, Head(pairs)[1], Head(pairs)[2], hdf_name,
                        SliceShape(arr, NPart(st.d, Head(pairs)[1], Head(pairs)[2])),
                        arr.dtype))

\* SimSnap: what self[fam][array_name] gives after _load_array ended as r; a load
\* that fails with OSError leaves a KeyError
LazyLoaded(arrs, r) ==
    [status |-> IF r.status = "OSError" THEN "KeyError" ELSE r.status,
     arrs |-> IF r.created THEN r.arrs @@ arrs ELSE arrs,
     last |-> r.last]

\* SimSnap: self[fam][array_name].  An array that is not in memory is loaded on
\* demand with _load_array.  [status, arrs, last]: arrs are the in-memory arrays
\* afterwards
GetFamilyArray(d, arrs, array_name, fam) ==
    IF fam \in DOMAIN arrs THEN [status |-> "ok", arrs |-> arrs, last |-> -1]
    ELSE LazyLoaded(arrs, load_array(d, array_name, fam))

\* What the loop over the families carries on with after the groups of a family,
\* got being its array and st what the loop over its groups left
FamilyWritten(acc, got, st) ==
    [d |-> st.d, arrs |-> got.arrs, status |-> st.status,
     last |-> IF st.status = "ok" THEN acc.d.nfiles - 1 ELSE st.last,
     iofail |-> acc.iofail]

\* The loop of write_array over the families.  acc = [d, arrs, status, last, iofail]
RECURSIVE WriteFamilies(_, _, _, _)
\* The first of fams, got being what the lookup of its array gave
WriteFamily(fams, array_name, hdf_name, acc, writing_fam, got) ==
    LET last0 == IF got.last > acc.last THEN got.last ELSE acc.last
    IN IF got.status # "ok"
       THEN [acc EXCEPT !.status = got.status, !.arrs = got.arrs, !.last = last0]
       ELSE IF writing_fam \notin DOMAIN family_to_group_map
       THEN [acc EXCEPT !.status = "KeyError", !.arrs = got.arrs, !.last = last0]
       ELSE WriteFamilies(Tail(fams), array_name, hdf_name,
                FamilyWritten(acc, got,
                    WritePairs(all_hdf_groups_in_family(acc.d, family_to_group_map, writing_fam),
                               hdf_name, got.arrs[writing_fam], acc.iofail,
                               [d |-> acc.d, i0 |-> 0, status |-> "ok", last |-> last0])))

WriteFamilies(fams, array_name, hdf_name, acc) ==
    IF fams = <<>> \/ acc.status # "ok" THEN acc
    ELSE WriteFamily(fams, array_name, hdf_name, acc, Head(fams),
                     GetFamilyArray(acc.d, acc.arrs, array_name, Head(fams)))

\* The try block of write_array: [d, arrs, status, last]
WriteBody(d, arrs, array_name, fam, iofail) ==
    WriteFamilies(IF fam = None THEN FamiliesOf(family_slice) ELSE <<fam>>,
                  array_name, translate_array_name(array_name)[1],
                  [d |-> d, arrs |-> arrs, status |-> "ok", last |-> -1, iofail |-> iofail])

\* write_array without its finally block: the mode and the cache stay as they are
WriteNoFinally(of, m) == [mode |-> m, open_files |-> of]

\* The finally block of write_array, entered with the cache `of` and the mode m
WriteFinally(of, m) == reopen_in_mode(of, m, "r")

\* write_array from the end of its try block on, which left body; rw is the file
\* manager as reopen_in_mode('r+') left it, used the handles the body opened
WriteEnded(rw, body, used) ==
    [status |-> body.status, d |-> body.d, arrs |-> body.arrs,
     mode |-> WriteFinally(used, rw.mode).mode,
     open_files |-> WriteFinally(used, rw.mode).open_files]

\* The handles in the cache after the try block opened the files up to body.last
HandlesUsed(rw, body) ==
    IF body.last >= 0 THEN IterOpen(rw.open_files, rw.mode, body.last)
    ELSE rw.open_files

\* write_array after reopen_in_mode('r+'), which left rw
WriteReopened(rw, body) == WriteEnded(rw, body, HandlesUsed(rw, body))

\* write_array(array_name, fam): [status, d, arrs, mode, open_files] afterwards
write_array(d, arrs, of, m, array_name, fam, iofail) ==
    WriteReopened(reopen_in_mode(of, m, "r+"), WriteBody(d, arrs, array_name, fam, iofail))

-----------------------------------------------------------------------------
(* The operations of a session on an open snapshot *)

Scopes == FamilyNames \cup {None}

\* The families an operation of scope fam works on
ScopeFamilies(fam) == IF fam = None THEN DOMAIN family_slice ELSE {fam}

FamCode(fam) == CHOOSE k \in 1..Len(default_type_map) : default_type_map[k].fam = fam

\* The values a user assigns: 900 + 10 * family + row
UserArray(fam) ==
    [dy |-> 1, dtype |-> "float64", units |-> "NoUnit",
     vals |-> [k \in 1..FamilyLength(fam) |-> 900 + 10 * FamCode(fam) + k]]

Spend ==
    /\ budget > 0
    /\ budget' = budget - 1
    /\ prevlog' = log

\* Load with a cache: an array that is in memory is returned as it is
LoadCached ==
    /\ Spend
    /\ \E r \in {IF focus.fam # None /\ focus.fam \in DOMAIN arrays
                 THEN [status |-> "ok", created |-> TRUE,
                       arrs |-> [f \in {focus.fam} |-> arrays[f]], last |-> -1]
                 ELSE load_array(disk, focus.name, focus.fam)} :
          /\ arrays' = IF r.created THEN r.arrs @@ arrays ELSE arrays
          /\ open_files' = IF r.last >= 0 THEN IterOpen(open_files, mode, r.last)
                           ELSE open_files
          /\ log' = [op |-> "load", status |-> r.status, arrs |-> r.arrs,
                     created |-> r.created, last |-> r.last]
    /\ UNCHANGED <<disk, mode, snapvars, sidevars>>

\* snap[fam][name] (or snap[name]) is read for the first time, and not in memory:
\* _load_array(name, fam), which ends as r
Load ==
    /\ Spend
    /\ \E r \in {load_array(disk, focus.name, focus.fam)} :
          /\ arrays' = IF r.created THEN r.arrs @@ arrays ELSE arrays
          /\ open_files' = IF r.last >= 0 THEN IterOpen(open_files, mode, r.last)
                           ELSE open_files
          /\ log' = [op |-> "load", status |-> r.status, arrs |-> r.arrs,
                     created |-> r.created, last |-> r.last]
    /\ UNCHANGED <<disk, mode, snapvars, sidevars>>

\* snap[fam][name] = values: the user puts an array of his own in memory
SetArray ==
    /\ Spend
    /\ LET new == [f \in ScopeFamilies(focus.fam) |-> UserArray(f)]
       IN /\ arrays' = new @@ arrays
          /\ log' = [op |-> "set", status |-> "ok", arrs |-> new, created |-> TRUE,
                     last |-> -1]
    /\ UNCHANGED <<disk, mode, open_files, snapvars, sidevars>>

\* write_array(name, fam), which ends as w; iofail: the first write to a file fails
Write(iofail) ==
    /\ Spend
    /\ \E w \in {write_array(disk, arrays, open_files, mode, focus.name, focus.fam, iofail)} :
          /\ disk' = w.d
          /\ arrays' = w.arrs
          /\ mode' = w.mode
          /\ open_files' = w.open_files
          /\ log' = [op |-> "write", status |-> w.status,
                     arrs |-> [f \in (IF focus.fam = None THEN Range(FamiliesOf(family_slice))
                                      ELSE {focus.fam}) \cap DOMAIN w.arrs |-> w.arrs[f]],
                     created |-> FALSE, last |-> -1]
    /\ UNCHANGED <<snapvars, sidevars>>

Next ==
    \/ Load
    \/ SetArray
    \/ \E iofail \in BOOLEAN : Write(iofail)

-----------------------------------------------------------------------------
(* The snapshots a session may open *)

NativeCode(hdf_name) ==
    CASE hdf_name = "Coordinates" -> 1
      [] hdf_name = "ParticleIDs" -> 2
      [] hdf_name = "Mass" -> 3
      [] hdf_name = "Masses" -> 4
      [] hdf_name = "Density" -> 5
      [] hdf_name = "Densities" -> 6
      [] OTHER -> 7

\* The k-th value of dataset hdf_name of group g of file i, as it is on disk at first
DiskVal(i, g, hdf_name, k) == (i + 1) * 1000 + TypeIndex(g) * 100 + NativeCode(hdf_name) * 10 + k

MkDset(i, g, hdf_name, shape, dtype, unit) ==
    [shape |-> shape, dtype |-> dtype, unit |-> unit,
     vals |-> [k \in 1..ProdSeq(shape) |-> DiskVal(i, g, hdf_name, k)]]

\* The datasets of a group, from the names, shapes, dtypes and units given
MkGroup(i, g, specs) ==
    [n \in {specs[k][1] : k \in 1..Len(specs)} |->
        LET sp == specs[CHOOSE k \in 1..Len(specs) : specs[k][1] = n]
        IN MkDset(i, g, n, sp[2], sp[3], sp[4])]

\* The groups of the layout snapshots: -1, a group without ParticleIDs; n >= 0, a
\* group of n particles
LayoutGroup(i, g, o) ==
    IF o = -1 THEN MkGroup(i, g, << <<"Density", <<1>>, "float32", "NoUnit">> >>)
    ELSE MkGroup(i, g, << <<"ParticleIDs", <<o>>, "int64", "NoUnit">>,
                          <<"Density", <<o>>, "float32", "NoUnit">> >>)

\* What a group of a layout snapshot may be in a file: absent (-2), without
\* ParticleIDs (-1), empty, or of MaxLayoutPart particles.  PartType0 may be any of
\* these, PartType1 is absent, empty or holds particles, PartType2 is absent or
\* holds particles
LayoutOptions(g) ==
    CASE g = "PartType0" -> {-2, -1, 0, MaxLayoutPart}
      [] g = "PartType1" -> {-2, 0, MaxLayoutPart}
      [] g = "PartType2" -> {-2, MaxLayoutPart}

\* The groups of the i/o snapshots
IOGroup(i, g, o) ==
    CASE o = 1 -> MkGroup(i, g, << <<"Densities", <<1>>, "float32", "NoUnit">>,
                                   <<"Temperature", <<1>>, "float32", "NoUnit">> >>)
      [] o = 2 -> MkGroup(i, g, << <<"ParticleIDs", <<0>>, "int64", "NoUnit">>,
                                   <<"Coordinates", <<0, 3>>, "float32", "NoUnit">>,
                                   <<"Density", <<0>>, "float32", "NoUnit">> >>)
      [] o = 3 -> MkGroup(i, g, << <<"ParticleIDs", <<MaxPart>>, "int64", "NoUnit">>,
                                   <<"Coordinates", <<MaxPart, 3>>, "float64", "cm">>,
                                   <<"Density", <<MaxPart>>, "float64", "g cm**-3">>,
                                   <<"Masses", <<MaxPart>>, "float32", "g">> >>)
      [] o = 4 -> MkGroup(i, g, << <<"ParticleIDs", <<1>>, "int64", "NoUnit">>,
                                   <<"Coordinates", <<1, 3>>, "float32", "cm">>,
                                   <<"Densities", <<1>>, "float32", "NoUnit">> >>)
      [] o = 5 -> MkGroup(i, g, << <<"ParticleIDs", <<1>>, "int64", "NoUnit">>,
                                   <<"Density", <<1>>, "float64", "g cm**-3">>,
                                   <<"Densities", <<1>>, "float64", "NoUnit">>,
                                   <<"Masses", <<1>>, "float64", "g">> >>)

\* A snapshot of nf files: choice[<<i, g>>] says what group g of file i is (-2 or 0:
\* the file does not hold the group)
MkDisk(nf, choice, absent, GroupOf(_, _, _), mtab, soft) ==
    [nfiles |-> nf,
     files |-> [k \in 1..nf |->
                  [groups |-> [g \in {x \in GroupNames : choice[<<k - 1, x>>] # absent} |->
                                  GroupOf(k - 1, g, choice[<<k - 1, g>>])],
                   MassTable |-> mtab]],
     soft |-> soft]

NoMassTable == [t \in 0..2 |-> 0]

\* What a group is in file 0 and in file 1
GasColumns == {<<3, 3>>, <<1, 1>>, <<2, 3>>, <<3, 5>>, <<5, 2>>, <<1, 3>>}
DmColumns == {<<3, 3>>, <<0, 4>>, <<4, 0>>, <<0, 0>>}
Dm2Columns == {<<0, 0>>, <<0, 1>>, <<0, 4>>}

IOChoice(c0, c1, c2) ==
    [p \in (0..1) \X GroupNames |->
        CASE p[2] = "PartType0" -> c0[p[1] + 1]
          [] p[2] = "PartType1" -> c1[p[1] + 1]
          [] p[2] = "PartType2" -> c2[p[1] + 1]]

MassTables == {NoMassTable, [NoMassTable EXCEPT ![1] = 2]}

ArrayNames == {"rho", "mass", "eps"}

\* The groups of the shape snapshots, of MaxPart particles unless said otherwise:
\*   1: Coordinates of 3 columns, one Density each
\*   2: Coordinates folded into one dimension
\*   3: one particle, and more Density values than particles
\*   4: Coordinates of 3 columns with twice as many rows as particles
\*   5: no particle
\*   6: more Density values than particles, not a multiple of their number
ShapeGroup(i, g, o) ==
    CASE o = 1 -> MkGroup(i, g, << <<"ParticleIDs", <<MaxPart>>, "int64", "NoUnit">>,
                                   <<"Coordinates", <<MaxPart, 3>>, "float64", "cm">>,
                                   <<"Density", <<MaxPart>>, "float32", "g cm**-3">> >>)
      [] o = 2 -> MkGroup(i, g, << <<"ParticleIDs", <<MaxPart>>, "int64", "NoUnit">>,
                                   <<"Coordinates", <<3 * MaxPart>>, "float64", "cm">>,
                                   <<"Density", <<MaxPart>>, "float32", "g cm**-3">> >>)
      [] o = 3 -> MkGroup(i, g, << <<"ParticleIDs", <<1>>, "int64", "NoUnit">>,
                                   <<"Coordinates", <<1, 3>>, "float64", "cm">>,
                                   <<"Density", <<MaxPart>>, "float32", "g cm**-3">> >>)
      [] o = 4 -> MkGroup(i, g, << <<"ParticleIDs", <<MaxPart>>, "int64", "NoUnit">>,
                                   <<"Coordinates", <<2 * MaxPart, 3>>, "float64", "cm">>,
                                   <<"Density", <<MaxPart>>, "float32", "g cm**-3">> >>)
      [] o = 5 -> MkGroup(i, g, << <<"ParticleIDs", <<0>>, "int64", "NoUnit">>,
                                   <<"Coordinates", <<0, 3>>, "float64", "cm">>,
                                   <<"Density", <<0>>, "float32", "g cm**-3">> >>)
      [] o = 6 -> MkGroup(i, g, << <<"ParticleIDs", <<MaxPart>>, "int64", "NoUnit">>,
                                   <<"Coordinates", <<MaxPart, 3>>, "float64", "cm">>,
                                   <<"Density", <<2 * MaxPart + 1>>, "float32", "g cm**-3">> >>)

ShapeArrayNames == {"pos", "rho"}

\* The state GadgetHDFSnap.__init__ leaves, on the files d and with the type map tm
OpenedWith(d, tm) ==
    \E fmap \in {family_map_of(tm, d)} :
        \E fm \in {init_file_map(d, fmap)} :
            \E lk \in {init_loadable_keys(d, fmap, fm.family_slice)} :
                /\ disk = d
                /\ mode = "r"
                /\ open_files = IterAll(d, NoFun, "r")
                /\ family_to_group_map = fmap
                /\ family_slice = fm.family_slice
                /\ gadget_ptype_slice = fm.gadget_ptype_slice
                /\ num_particles = fm.num_particles
                /\ loadable_family_keys = lk.family
                /\ loadable_keys = lk.all
                /\ mass_dtype = infer_mass_dtype(d)
                /\ arrays = NoFun
                /\ iter_next = {}
                /\ type_map = tm
                /\ call = NoCall
                /\ ret = NoCall
                /\ log = [op |-> "init", status |-> "ok", arrs |-> NoFun,
                          created |-> FALSE, last |-> -1]
                /\ prevlog = [op |-> "init", status |-> "ok", arrs |-> NoFun,
                              created |-> FALSE, last |-> -1]

\* The same with the type map of config.ini
Opened(d) == OpenedWith(d, default_type_map)

Init ==
    /\ \E c0 \in GasColumns, c1 \in DmColumns, c2 \in Dm2Columns, mtab \in MassTables,
          soft \in {{0, 1}, {0, 1, 2}} :
          Opened(MkDisk(2, IOChoice(c0, c1, c2), 0, IOGroup, mtab, soft))
    /\ focus \in [name : ArrayNames, fam : Scopes]
    /\ budget = MaxOps

InitLayout ==
    /\ \E nf \in 1..MaxFiles :
          \E c \in [(0..(nf - 1)) \X GroupNames -> {-2, -1, 0, MaxLayoutPart}] :
              /\ \A p \in DOMAIN c : c[p] \in LayoutOptions(p[2])
              /\ Opened(MkDisk(nf, c, -2, LayoutGroup, NoMassTable, {}))
    /\ focus = [name |-> "rho", fam |-> None]
    /\ budget = MaxOpsLayout

InitStore ==
    /\ \E c0 \in {<<3, 3>>, <<3, 5>>, <<4, 3>>, <<1, 1>>}, c1 \in {<<3, 3>>, <<0, 0>>},
          soft \in {{}, {0, 1, 2}} :
          Opened(MkDisk(2, IOChoice(c0, c1, <<0, 0>>), 0, IOGroup, NoMassTable, soft))
    /\ focus \in [name : ArrayNames, fam : Scopes]
    /\ budget = MaxOpsStore

\* A snapshot whose groups do not matter: every file holds every group
ShardDisk(nf) ==
    MkDisk(nf, [p \in (0..(nf - 1)) \X GroupNames |-> MaxLayoutPart], -2, LayoutGroup,
           NoMassTable, {})

\* manager[i]
GetItem(i) ==
    /\ Spend
    /\ \E r \in {getitem(disk, open_files, mode, i)} :
          /\ open_files' = r.open_files
          /\ log' = [op |-> "getitem", index |-> i, status |-> r.status,
                     handles |-> r.handles, cached |-> DOMAIN open_files, from |-> mode]
    /\ UNCHANGED <<disk, mode, iter_next, type_map, call, ret, arrays, snapvars>>

\* iter(manager): a generator that has not run yet
IterBegin ==
    /\ iter_next = {}
    /\ Spend
    /\ iter_next' = {0}
    /\ log' = [op |-> "iter", index |-> -1, status |-> "ok", handles |-> <<>>,
               cached |-> DOMAIN open_files, from |-> mode]
    /\ UNCHANGED <<disk, mode, open_files, type_map, call, ret, arrays, snapvars>>

\* next() on the live generator
IterNext ==
    /\ Spend
    /\ \E k \in iter_next :
          \E r \in {iter_step(disk, open_files, mode, k)} :
              /\ open_files' = r.open_files
              /\ iter_next' = r.next
              /\ log' = [op |-> "next", index |-> k, status |-> r.status,
                         handles |-> r.handles, cached |-> DOMAIN open_files,
                         from |-> mode]
    /\ UNCHANGED <<disk, mode, type_map, call, ret, arrays, snapvars>>

\* manager.reopen_in_mode(newmode)
Reopen(newmode) ==
    /\ Spend
    /\ \E r \in {reopen_in_mode(open_files, mode, newmode)} :
          /\ mode' = r.mode
          /\ open_files' = r.open_files
          /\ log' = [op |-> "reopen", req |-> newmode, status |-> "ok", handles |-> <<>>,
                     cached |-> DOMAIN open_files, from |-> mode]
    /\ UNCHANGED <<disk, iter_next, type_map, call, ret, arrays, snapvars>>

NextShards ==
    \/ \E i \in -1..MaxShards : GetItem(i)
    \/ IterBegin
    \/ IterNext
    \/ \E newmode \in Modes : Reopen(newmode)

\* A manager just constructed, on a file or on a span of up to MaxShards files; the
\* snapshot that owns it has not built anything yet
InitShards ==
    /\ \E nf \in 1..MaxShards, span \in BOOLEAN, m \in Modes :
          /\ span \/ nf = 1
          /\ \E r \in {manager_init(ShardDisk(nf), span, m)} :
                /\ disk = ShardDisk(nf)
                /\ mode = r.mode
                /\ open_files = r.open_files
                /\ log = [op |-> "open", span |-> span, status |-> "ok", handles |-> <<>>,
                          opened |-> r.opened]
                /\ prevlog = [op |-> "none"]
    /\ iter_next = {}
    /\ type_map = default_type_map
    /\ call = NoCall
    /\ ret = NoCall
    /\ focus = [name |-> None, fam |-> None]
    /\ budget = MaxOpsShards
    /\ family_to_group_map = NoFun
    /\ family_slice = NoFun
    /\ gadget_ptype_slice = NoFun
    /\ num_particles = 0
    /\ loadable_family_keys = NoFun
    /\ loadable_keys = Unset
    /\ mass_dtype = None
    /\ arrays = NoFun

SpecShards == InitShards /\ [][NextShards]_vars

\* The group names of the type maps below
OrderGroups == {"PartType1", "PartType2", "PartType10"}

\* Type maps as a configuration may give them: gas has one candidate group, dm has
\* one or two others
OrderTypeMaps ==
    {<<[fam |-> "dm", groups |-> p[2]], [fam |-> "gas", groups |-> <<p[1]>>]>> :
        p \in {q \in OrderGroups \X UNION {[1..n -> OrderGroups] : n \in 1..2} :
                  /\ q[1] \notin Range(q[2])
                  /\ Cardinality(Range(q[2])) = Len(q[2])}}

\* A snapshot of MaxFiles files; where[g]: the files that hold group g, with
\* MaxLayoutPart particles each
OrderDisk(where) ==
    [nfiles |-> MaxFiles,
     files |-> [k \in 1..MaxFiles |->
                  [groups |-> [g \in {x \in OrderGroups : (k - 1) \in where[x]} |->
                                  LayoutGroup(k - 1, g, MaxLayoutPart)],
                   MassTable |-> NoMassTable]],
     soft |-> {}]

\* Snapshots opened under these type maps; a group is in no file, in file 0 only, or
\* in every file
InitOrder ==
    /\ \E tm \in OrderTypeMaps :
          \E where \in [OrderGroups -> {{}, {0}, 0..(MaxFiles - 1)}] :
              OpenedWith(OrderDisk(where), tm)
    /\ focus = [name |-> "rho", fam |-> None]
    /\ budget = MaxOpsLayout

\* Snapshots of two files whose datasets may disagree in shape with the particle
\* counts: PartType0 is any shape group in file 0 and any or none in file 1,
\* PartType1 is absent or regular
InitShape ==
    /\ \E c0 \in (1..6) \X (0..6), c1 \in {<<0, 0>>, <<1, 1>>, <<0, 3>>} :
          Opened(MkDisk(2, IOChoice(c0, c1, <<0, 0>>), 0, ShapeGroup, NoMassTable, {}))
    /\ focus \in [name : ShapeArrayNames, fam : Scopes]
    /\ budget = MaxOpsShape

Spec == Init /\ [][Next]_vars

SpecLayout == InitLayout /\ [][Next]_vars

SpecStore == InitStore /\ [][Next]_vars

SpecOrder == InitOrder /\ [][Next]_vars

SpecShape == InitShape /\ [][Next]_vars

-----------------------------------------------------------------------------
(* Units from a description string.
   A description is a sequence of characters, the name of a unit variable counting
   as one character.  The conversion factor that is inferred is a power of ten and
   is kept as its exponent; a factor that is declared is a multiple of 10^-9 and is
   kept as that multiple. *)

\* _hdf_unitvar and _hdf_cgsvar, in the order of the keys: the unit variables, each
\* with in_units() of its unit in its cgs unit, 10^cgs
hdf_unitvar == <<[name |-> "U_L", cgs |-> 1], [name |-> "U_M", cgs |-> -5]>>

\* description.find(unitname), counted from 1
Find(description, unitname) ==
    LET at == {p \in 1..Len(description) : description[p] = unitname}
    IN CHOOSE p \in at : \A q \in at : p <= q

\* The characters of text up to the first blank
RECURSIVE TakeWord(_)
TakeWord(text) ==
    IF text = <<>> \/ Head(text) = " " THEN <<>>
    ELSE <<Head(text)>> \o TakeWord(Tail(text))

\* text.split()[0]; <<>> when split() returns no word
RECURSIVE FirstWord(_)
FirstWord(text) ==
    IF text = <<>> THEN <<>>
    ELSE IF Head(text) = " " THEN FirstWord(Tail(text))
    ELSE TakeWord(text)

Digits == {"0", "1", "2", "3"}

DigitValue(c) ==
    CASE c = "0" -> 0
      [] c = "1" -> 1
      [] c = "2" -> 2
      [] c = "3" -> 3

\* float(word) of a word of digits
RECURSIVE NumberOf(_)
NumberOf(word) ==
    IF word = <<>> THEN 0
    ELSE 10 * NumberOf(SubSeq(word, 1, Len(word) - 1)) + DigitValue(word[Len(word)])

\* float(word): [status, power]; sign is what power holds so far
FloatOf(word, sign) ==
    IF word = <<>> THEN [status |-> "IndexError", power |-> 0]
    ELSE IF \E k \in 1..Len(word) : word[k] \notin Digits
    THEN [status |-> "ValueError", power |-> 0]
    ELSE [status |-> "ok", power |-> sign * NumberOf(word)]

\* description[from:-1], from counted from 1: the slice ends before the last
\* character of the description, so of a unit variable that ends the description
\* it keeps all but the last letter
SliceToLast(description, from) ==
    IF from > Len(description) THEN <<>>
    ELSE SubSeq(description, from, Len(description) - 1)
           \o (IF \E k \in 1..Len(hdf_unitvar) :
                     hdf_unitvar[k].name = description[Len(description)]
               THEN <<"U_">> ELSE <<>>)

\* The index after the "^" at place q: float(description[q + 1:-1].split()[0]), or,
\* a "-" following, minus float(description[q + 2:-1].split()[0]).
Exponent(description, q, sign) ==
    IF q + 1 > Len(description) THEN [status |-> "IndexError", power |-> 0]
    ELSE IF description[q + 1] = "-"
    THEN FloatOf(FirstWord(SliceToLast(description, q + 2)), -sign)
    ELSE FloatOf(FirstWord(SliceToLast(description, q + 1)), sign)

\* The power of a unit variable that occurs in the description, first at place p:
\* a "/" before it negates, a "^" after it brings an index
PowerAt(description, p) ==
    LET sign == IF p > 1 /\ description[p - 1] = "/" THEN -1 ELSE 1
    IN IF Len(description) > p /\ description[p + 1] = "^"
       THEN Exponent(description, p + 1, sign)
       ELSE [status |-> "ok", power |-> sign]

\* arr_units and conversion multiplied by the unit u to the power pw.power
Multiplied(u, acc, pw) ==
    IF pw.status # "ok" THEN [acc EXCEPT !.status = pw.status]
    ELSE IF pw.power = 0 THEN acc
    ELSE [status |-> "ok",
          units |-> [acc.units EXCEPT ![u.name] = @ + pw.power],
          conversion |-> acc.conversion + u.cgs * pw.power]

\* The body of the loop over the unit variables
WithUnit(description, u, acc) ==
    IF u.name \notin Range(description) THEN acc
    ELSE Multiplied(u, acc, PowerAt(description, Find(description, u.name)))

\* The loop over the unit variables; an exception ends it
RECURSIVE DescriptionUnits(_, _, _)
DescriptionUnits(description, unitvars, acc) ==
    IF unitvars = <<>> \/ acc.status # "ok" THEN acc
    ELSE DescriptionUnits(description, Tail(unitvars), WithUnit(description, Head(unitvars), acc))

Pow10(n) == ProdSeq([k \in 1..n |-> 10])

\* np.allclose(10^x, e * 10^-9, rtol=1e-3): |a - b| <= atol + rtol * |b|, with the
\* atol that numpy has by default, 1e-8.  Declared factors are below 10, so no
\* positive x is close; 10^x with x < -9 is below 10^-10.
allclose(x, e) ==
    IF x > 0 THEN FALSE
    ELSE IF x < -9 THEN e <= 10
    ELSE LET c == Pow10(x + 9)
             diff == IF c >= e THEN c - e ELSE e - c
         IN diff <= 10 + e \div 1000

\* The check of the inferred conversion factor against the declared one, if any
Checked(acc, expected) ==
    IF acc.status = "ok" /\ \E e \in expected : ~allclose(acc.conversion, e)
    THEN [acc EXCEPT !.status = "UnitsException"]
    ELSE acc

\* _get_units_from_description: [status, units, conversion]; units is what it
\* returns when the status is ok.  expected: {} for None, or {e}
get_units_from_description(description, expected) ==
    Checked(DescriptionUnits(description, hdf_unitvar,
                             [status |-> "ok",
                              units |-> [n \in {hdf_unitvar[k].name : k \in 1..Len(hdf_unitvar)} |-> 0],
                              conversion |-> 0]),
            expected)

-----------------------------------------------------------------------------
(* _init_unit_information.
   File 0 is seen as its attribute blocks Units, Parameters and Header, each
   [present, keys], and, for each of the arrays Coordinates, Velocities and Mass,
   whether a dataset of that name is in a particle group and whether it carries the
   cosmological exponents. *)

velocity_unit_key == "UnitVelocity_in_cm_per_s"
length_unit_key == "UnitLength_in_cm"
mass_unit_key == "UnitMass_in_g"
time_unit_key == "UnitTime_in_s"

\* get_unit_attrs: self[0].parent['Units'].attrs
get_unit_attrs(f) ==
    IF f.Units.present THEN [status |-> "ok", keys |-> f.Units.keys, from |-> "Units"]
    ELSE [status |-> "KeyError", keys |-> {}, from |-> "Units"]

\* get_header_attrs: self[0].parent['Header'].attrs
get_header_attrs(f) ==
    IF f.Header.present THEN [status |-> "ok", keys |-> f.Header.keys, from |-> "Header"]
    ELSE [status |-> "KeyError", keys |-> {}, from |-> "Header"]

\* get_parameter_attrs without the header: the attributes of Parameters, or none
get_parameter_attrs_only(f) ==
    IF f.Parameters.present
    THEN [status |-> "ok", keys |-> f.Parameters.keys, from |-> "Parameters"]
    ELSE [status |-> "ok", keys |-> {}, from |-> "Parameters"]

\* get_parameter_attrs: the attributes of Parameters; if there is no such block or
\* it has no attribute, those of Header
get_parameter_attrs(f) ==
    IF f.Parameters.present /\ f.Parameters.keys # {}
    THEN [status |-> "ok", keys |-> f.Parameters.keys, from |-> "Parameters"]
    ELSE get_header_attrs(f)

\* What _init_unit_information leaves: how it ended, the block the units were taken
\* from, the warnings, the attribute keys read, _file_units_system (for each
\* base unit where its value comes from and which cosmological factor multiplies
\* it) and whether _hdf_unitvar was set
UnitInfo(status, source, warned, read, system, unitvar) ==
    [status |-> status, source |-> source, warned |-> warned, read |-> read,
     units |-> system, unitvar |-> unitvar]

\* The units of the [gadget-units] section of the configuration, with K
DefaultUnits ==
    [vel |-> [from |-> "config", cosmo |-> "none"],
     pos |-> [from |-> "config", cosmo |-> "none"],
     mass |-> [from |-> "config", cosmo |-> "none"],
     temp |-> "K"]

NoUnits == [temp |-> "unset"]

\* _get_cosmo_factors(self._hdf_files[0], arr_name) inside its try: the factor and
\* the warning, from what file 0 holds for the array
CosmoFactor(f, arr_name) ==
    CASE f.cosmo[arr_name] = "attrs" -> [cosmo |-> "attrs", warned |-> {}]
      [] f.cosmo[arr_name] = "noattrs" ->
            [cosmo |-> "assumed", warned |-> {"assumed " \o arr_name}]
      [] f.cosmo[arr_name] = "absent" /\ arr_name = "Mass" ->
            [cosmo |-> "h**-1", warned |-> {"masses in header"}]
      [] OTHER -> [cosmo |-> "one", warned |-> {}]

\* The cosmological part: par is what _get_hdf_parameter_attrs() gives
WithCosmo(f, atr, read, par) ==
    IF par.status # "ok" THEN UnitInfo("KeyError", atr.from, {}, read, NoUnits, TRUE)
    ELSE IF "HubbleParam" \notin par.keys
    THEN UnitInfo("ok", atr.from, {}, read,
                  [vel |-> [from |-> atr.from, cosmo |-> "none"],
                   pos |-> [from |-> atr.from, cosmo |-> "none"],
                   mass |-> [from |-> atr.from, cosmo |-> "none"],
                   temp |-> "K"], TRUE)
    ELSE UnitInfo("ok", atr.from,
                  CosmoFactor(f, "Coordinates").warned \cup CosmoFactor(f, "Velocities").warned
                      \cup CosmoFactor(f, "Mass").warned,
                  read,
                  [vel |-> [from |-> atr.from, cosmo |-> CosmoFactor(f, "Velocities").cosmo],
                   pos |-> [from |-> atr.from, cosmo |-> CosmoFactor(f, "Coordinates").cosmo],
                   mass |-> [from |-> atr.from, cosmo |-> CosmoFactor(f, "Mass").cosmo],
                   temp |-> "K"], TRUE)

\* The part after the choice of the attributes atr: velocity, length, mass and time
\* are read from them; a missing time is length over velocity
ReadUnits(f, atr) ==
    IF velocity_unit_key \notin atr.keys
    THEN UnitInfo("KeyError", atr.from, {}, {velocity_unit_key}, NoUnits, FALSE)
    ELSE IF length_unit_key \notin atr.keys
    THEN UnitInfo("KeyError", atr.from, {}, {velocity_unit_key, length_unit_key}, NoUnits,
                  FALSE)
    ELSE IF mass_unit_key \notin atr.keys
    THEN UnitInfo("KeyError", atr.from, {},
                  {velocity_unit_key, length_unit_key, mass_unit_key}, NoUnits, FALSE)
    ELSE WithCosmo(f, atr,
                   {velocity_unit_key, length_unit_key, mass_unit_key, time_unit_key},
                   get_parameter_attrs(f))

\* The except branch: there is no Units block, and par is what
\* get_parameter_attrs() gives
WithoutUnitsBlock(f, par) ==
    IF par.status # "ok" THEN UnitInfo("KeyError", par.from, {}, {}, NoUnits, FALSE)
    ELSE IF velocity_unit_key \notin par.keys
    THEN UnitInfo("ok", "config", {"no unit information"}, {}, DefaultUnits, FALSE)
    ELSE ReadUnits(f, par)

\* _init_unit_information
init_unit_information(f) ==
    IF get_unit_attrs(f).status = "ok" THEN ReadUnits(f, get_unit_attrs(f))
    ELSE WithoutUnitsBlock(f, get_parameter_attrs(f))

-----------------------------------------------------------------------------
(* _can_load.
   A path is [stem, suffix], as pathlib splits its last component; the file system
   maps a file name to what is there: NotHdf (no file, or a file that is not HDF5),
   or an HDF5 file with its keys and the attributes of its groups. *)

\* _readable_hdf5_test_key and _readable_hdf5_test_attr of the classes; a key whose
\* last character is "?" is given by the characters before it; <<>> for None
readable_hdf5_test(cls) ==
    CASE cls = "GadgetHDFSnap" ->
            [key |-> "PartType", template |-> TRUE, attr |-> <<>>]
      [] cls = "ArepoHDFSnap" ->
            [key |-> "PartType", template |-> TRUE, attr |-> <<"Config", "VORONOI">>]
      [] cls = "SubFindHDFSnap" ->
            [key |-> "FOF", template |-> FALSE, attr |-> <<>>]
      [] cls = "EagleLikeHDFSnap" ->
            [key |-> "PartType1/SubGroupNumber", template |-> FALSE, attr |-> <<>>]

\* str(p) for p in range(6)
Range6 == <<"0", "1", "2", "3", "4", "5">>

NotHdf == [valid |-> FALSE, keys |-> {}, attrs |-> NoFun]

\* str(f)
PathName(path) == path.stem \o path.suffix

\* f.with_suffix(suffix): the suffix of the path is replaced
with_suffix(path, suffix) == [stem |-> path.stem, suffix |-> suffix]

\* The path with the suffix added to its name
with_suffix_added(path, suffix) == [stem |-> PathName(path), suffix |-> suffix]

\* h5py.is_hdf5(f)
is_hdf5(fs, path) == PathName(path) \in DOMAIN fs /\ fs[PathName(path)].valid

\* The second part of _test_for_hdf5_key: the attribute test
TestAttr(t, h5test) ==
    IF t.attr = <<>> THEN TRUE
    ELSE IF t.attr[1] \in h5test.keys THEN t.attr[2] \in h5test.attrs[t.attr[1]]
    ELSE FALSE

\* _test_for_hdf5_key on the open file h5test
test_for_hdf5_key(cls, h5test) ==
    LET t == readable_hdf5_test(cls)
        found == IF t.template
                 THEN \E p \in 1..Len(Range6) : (t.key \o Range6[p]) \in h5test.keys
                 ELSE t.key \in h5test.keys
    IN IF ~found THEN FALSE ELSE TestAttr(t, h5test)

\* _can_load, h5py being there
can_load(cls, fs, f) ==
    IF is_hdf5(fs, f) THEN test_for_hdf5_key(cls, fs[PathName(f)])
    ELSE IF is_hdf5(fs, with_suffix(f, ".0.hdf5"))
    THEN test_for_hdf5_key(cls, fs[PathName(with_suffix(f, ".0.hdf5"))])
    ELSE FALSE

-----------------------------------------------------------------------------
(* Methods called on their own *)

\* self._get_units_from_description(description, expected)
UnitsFromDescription ==
    /\ call.fn = "get_units_from_description"
    /\ ret = NoCall
    /\ ret' = get_units_from_description(call.description, call.expected)
    /\ UNCHANGED <<disk, budget, mode, open_files, arrays, log, prevlog, snapvars,
                   iter_next, type_map, call>>

\* self._init_unit_information() on file 0
InitUnitInformation ==
    /\ call.fn = "init_unit_information"
    /\ ret = NoCall
    /\ ret' = init_unit_information(call.file0)
    /\ UNCHANGED <<disk, budget, mode, open_files, arrays, log, prevlog, snapvars,
                   iter_next, type_map, call>>

\* cls._can_load(f)
CanLoad ==
    /\ call.fn = "can_load"
    /\ ret = NoCall
    /\ ret' = [status |-> "ok", value |-> can_load(call.cls, call.fs, call.f)]
    /\ UNCHANGED <<disk, budget, mode, open_files, arrays, log, prevlog, snapvars,
                   iter_next, type_map, call>>

NextCalls ==
    \/ UnitsFromDescription
    \/ InitUnitInformation
    \/ CanLoad

\* No snapshot is open
NoSnapshot ==
    /\ disk = ShardDisk(1)
    /\ mode = "r"
    /\ open_files = NoFun
    /\ log = [op |-> "none"]
    /\ prevlog = [op |-> "none"]
    /\ iter_next = {}
    /\ type_map = default_type_map
    /\ focus = [name |-> None, fam |-> None]
    /\ budget = 0
    /\ family_to_group_map = NoFun
    /\ family_slice = NoFun
    /\ gadget_ptype_slice = NoFun
    /\ num_particles = 0
    /\ loadable_family_keys = NoFun
    /\ loadable_keys = Unset
    /\ mass_dtype = None
    /\ arrays = NoFun

\* One unit variable as a description may spell it
DescTerms(u) ==
    {(IF sl THEN <<"/">> ELSE <<>>) \o <<u>> \o ex :
        sl \in BOOLEAN,
        ex \in {<<>>, <<"^", "2">>, <<"^", "-", "3">>, <<"^", "3">>, <<"^", "0">>, <<"^">>,
                <<"^", "1", "2">>}}

\* Descriptions with U_M, U_L, both or neither, with and without text around them
Descriptions ==
    {lead \o t1 \o sep \o t2 \o trail :
        lead \in {<<>>, <<"x", " ">>},
        t1 \in DescTerms("U_M") \cup {<<>>},
        sep \in {<<>>, <<" ">>},
        t2 \in DescTerms("U_L") \cup {<<>>},
        trail \in {<<>>, <<" ">>, <<" ", "x">>}}

\* Conversion factors an attribute may declare, in units of 10^-9; {}: none declared
ExpectedFactors ==
    {{}} \cup {{e} : e \in {1, 10, 20, 1000, 1001, 10000, 10005, 10015, 10100,
                            100000000, 100050000, 101000000}}

\* An attribute block: absent, or present with some attributes
Block(keys) == [present |-> TRUE, keys |-> keys]
AbsentBlock == [present |-> FALSE, keys |-> {}]

UnitKeys == {velocity_unit_key, length_unit_key, mass_unit_key}

\* File 0 as _init_unit_information may find it
UnitFiles ==
    [Units : {AbsentBlock, Block(UnitKeys), Block(UnitKeys \cup {time_unit_key}),
              Block({length_unit_key, mass_unit_key})},
     Parameters : {AbsentBlock, Block({}), Block({"HubbleParam"}), Block(UnitKeys),
                   Block(UnitKeys \cup {"HubbleParam"}),
                   Block({velocity_unit_key, "HubbleParam"})},
     Header : {AbsentBlock, Block({"HubbleParam"}), Block({"NumPart_ThisFile"}),
               Block(UnitKeys \cup {"HubbleParam"})},
     cosmo : [{"Coordinates", "Velocities", "Mass"} -> {"absent", "attrs", "noattrs"}]]

\* What a file may be
FileContents ==
    {NotHdf} \cup
    [valid : {TRUE},
     keys : {{}, {"Header"}, {"Header", "PartType3"}, {"Header", "FOF"},
             {"Header", "PartType1", "PartType1/SubGroupNumber"}},
     attrs : {NoFun}] \cup
    [valid : {TRUE},
     keys : {{"Header", "PartType0", "Config"}, {"Header", "Config"}},
     attrs : {[l \in {"Config"} |-> {}], [l \in {"Config"} |-> {"VORONOI"}]}]

Classes == {"GadgetHDFSnap", "ArepoHDFSnap", "SubFindHDFSnap", "EagleLikeHDFSnap"}

\* The paths a user may give, and the names of the files that matter for them
ProbePaths == {[stem |-> "snap", suffix |-> ""], [stem |-> "snap", suffix |-> ".v2"]}

ProbeNames(f) ==
    {PathName(f), PathName(with_suffix(f, ".0.hdf5")),
     PathName(with_suffix_added(f, ".0.hdf5"))}

InitCalls ==
    /\ NoSnapshot
    /\ ret = NoCall
    /\ call \in [fn : {"get_units_from_description"}, description : Descriptions,
                 expected : ExpectedFactors]
               \cup [fn : {"init_unit_information"}, file0 : UnitFiles]
               \cup UNION {[fn : {"can_load"}, cls : Classes, f : {f},
                            fs : [ProbeNames(f) -> FileContents]] : f \in ProbePaths}

SpecCalls == InitCalls /\ [][NextCalls]_vars

-----------------------------------------------------------------------------
(* Properties *)

\* The files that hold group g with its ParticleIDs
FilesWithIds(g) ==
    {i \in 0..(disk.nfiles - 1) :
        g \in DOMAIN disk.files[i + 1].groups
        /\ "ParticleIDs" \in DOMAIN disk.files[i + 1].groups[g]}

\* The number of particles of group g in file i: the size of its ParticleIDs, 0 when
\* the file does not hold the group or the group holds no ParticleIDs
CountIn(i, g) ==
    IF i \in FilesWithIds(g) THEN ProdSeq(disk.files[i + 1].groups[g]["ParticleIDs"].shape)
    ELSE 0

GroupCount(g) == SumSeq([k \in 1..disk.nfiles |-> CountIn(k - 1, g)])

TotalParticles ==
    SumSeq([k \in 1..Len(all_hdf_particle_groups) |-> GroupCount(all_hdf_particle_groups[k])])

\* C1: the Family slices, in Family iteration order, partition [0, N): the first
\* starts at 0, each starts where the one before ends, the last ends at N, the
\* total particle count, and every flat index lies in exactly one of them.
C1_FamilyRangesPartition ==
    LET fams == families_ordered(family_to_group_map)
        n == Len(fams)
    IN /\ num_particles = TotalParticles
       /\ n = 0 => num_particles = 0
       /\ n > 0 => /\ family_slice[fams[1]].start = 0
                   /\ family_slice[fams[n]].stop = num_particles
       /\ \A k \in 1..n : family_slice[fams[k]].start <= family_slice[fams[k]].stop
       /\ \A k \in 1..(n - 1) : family_slice[fams[k + 1]].start = family_slice[fams[k]].stop
       /\ \A x \in 0..(num_particles - 1) :
              Cardinality({f \in DOMAIN family_slice :
                              family_slice[f].start <= x /\ x < family_slice[f].stop}) = 1

\* C1 witness: two Families, the first with no particle (a zero-length range), the
\* second with some
C1_Witness ==
    LET fams == families_ordered(family_to_group_map)
    IN /\ Len(fams) = 2
       /\ family_slice[fams[1]].start = family_slice[fams[1]].stop
       /\ family_slice[fams[2]].stop > family_slice[fams[2]].start

\* C2: within every Family the group slices, in table order, are contiguous from
\* the Family's start to its end, and each is as long as the group's ParticleIDs
\* sizes summed over the files, a file without the group or without its
\* ParticleIDs counting 0.
C2_GroupRangesPartition ==
    \A fam \in DOMAIN family_to_group_map :
        LET groups == family_to_group_map[fam]
            n == Len(groups)
        IN /\ gadget_ptype_slice[groups[1]].start = family_slice[fam].start
           /\ gadget_ptype_slice[groups[n]].stop = family_slice[fam].stop
           /\ \A k \in 1..(n - 1) :
                  gadget_ptype_slice[groups[k + 1]].start = gadget_ptype_slice[groups[k]].stop
           /\ \A k \in 1..n :
                  gadget_ptype_slice[groups[k]].stop - gadget_ptype_slice[groups[k]].start
                      = GroupCount(groups[k])

\* C2 witness: a Family of two groups, both with particles, the first missing (or
\* without ParticleIDs) in one file and holding particles in another
C2_Witness ==
    /\ disk.nfiles = 2
    /\ \E fam \in DOMAIN family_to_group_map :
          LET groups == family_to_group_map[fam]
          IN /\ Len(groups) = 2
             /\ GroupCount(groups[1]) > 0
             /\ GroupCount(groups[2]) > 0
             /\ FilesWithIds(groups[1]) = {1}

\* C3: when write_array has ended, normally or by raising, the mode of the file
\* manager is 'r' and no handle of the cache was opened in 'r+'.
C3_StoreLeavesReadOnly ==
    log.op = "write" =>
        /\ mode = "r"
        /\ \A i \in DOMAIN open_files : open_files[i] = "r"

\* C3 witness: a write_array that raised while it was writing to a file
C3_Witness ==
    /\ log.op = "write"
    /\ log.status = "OSError: write"
    /\ mode = "r"

\* C4: write_array of the mass array ends with the error of the mass block, for
\* every scope and whatever the files hold.
C4_StoreMassAlwaysRejected ==
    (log.op = "write" /\ focus.name = mass_pynbody_name) => log.status = "OSError: mass"

\* C5: a Family-scoped write_array that succeeded and wrote values, followed by a
\* load of the same array in the same Family, gives back the values written in
\* the same order, for every array but mass that the Family can load.
C5_StoreLoadRoundTrip ==
    (/\ log.op = "load"
     /\ prevlog.op = "write"
     /\ prevlog.status = "ok"
     /\ focus.fam # None
     /\ focus.fam \in DOMAIN prevlog.arrs
     /\ prevlog.arrs[focus.fam].vals # <<>>
     /\ focus.fam \in DOMAIN loadable_family_keys
     /\ focus.name \in loadable_family_keys[focus.fam]
     /\ focus.name # mass_pynbody_name)
    => /\ log.status = "ok"
       /\ focus.fam \in DOMAIN log.arrs
       /\ log.arrs[focus.fam].vals = prevlog.arrs[focus.fam].vals

TraversalPairs(fam) ==
    LET groups == family_to_group_map[fam]
        nf == disk.nfiles
        all == [k \in 1..(Len(groups) * nf) |-> <<(k - 1) % nf, groups[((k - 1) \div nf) + 1]>>]
    IN SelectSeq(all, LAMBDA p : p[1] \in FilesWithIds(p[2]))

\* The candidate native names of the array of the session that group g of file i holds
CandidatesHeld(i, g) ==
    {n \in Range(translate_array_name(focus.name)) : n \in DOMAIN disk.files[i + 1].groups[g]}

\* The mass or the softening of group g of file i comes from the header
FromHeader(i, g) ==
    \/ focus.name = "mass" /\ disk.files[i + 1].MassTable[TypeIndex(g)] > 0
    \/ focus.name = "eps" /\ TypeIndex(g) \in disk.soft

\* C7: a Family-scoped load that succeeds gives an array as long as the particle
\* counts of the Family's <<group, file>> pairs summed, and the values of a pair
\* lie in the slice that starts at the summed counts of the pairs before it.
C7_FamilyLoadLayout ==
    (log.op = "load" /\ log.status = "ok" /\ focus.fam # None) =>
        LET arr == log.arrs[focus.fam]
            pairs == TraversalPairs(focus.fam)
            count(k) == CountIn(pairs[k][1], pairs[k][2])
            offset(k) == SumSeq([j \in 1..(k - 1) |-> count(j)])
        IN /\ Len(arr.vals) = arr.dy * SumSeq([k \in 1..Len(pairs) |-> count(k)])
           /\ \A k \in 1..Len(pairs) :
                  LET held == CandidatesHeld(pairs[k][1], pairs[k][2])
                  IN (Cardinality(held) = 1 /\ ~FromHeader(pairs[k][1], pairs[k][2])) =>
                        LET ds == disk.files[pairs[k][1] + 1].groups[pairs[k][2]]
                                      [CHOOSE n \in held : TRUE]
                        IN \A x \in 1..(count(k) * arr.dy) :
                               arr.vals[offset(k) * arr.dy + x] = ds.vals[x]

\* C7 witness: a Family-scoped load over two files, the first declaring no particle
\* of the Family's group and the second some: the second file's values start at 0
C7_Witness ==
    /\ log.op = "load"
    /\ log.status = "ok"
    /\ focus.fam # None
    /\ LET pairs == TraversalPairs(focus.fam)
       IN /\ Len(pairs) >= 2
          /\ CountIn(pairs[1][1], pairs[1][2]) = 0
          /\ CountIn(pairs[2][1], pairs[2][2]) > 1
          /\ Cardinality(CandidatesHeld(pairs[2][1], pairs[2][2])) = 1
          /\ ~FromHeader(pairs[2][1], pairs[2][2])
          /\ log.arrs[focus.fam].vals[1] =
                 disk.files[pairs[2][1] + 1].groups[pairs[2][2]]
                     [CHOOSE n \in CandidatesHeld(pairs[2][1], pairs[2][2]) : TRUE].vals[1]

\* The dtypes of the Coordinates datasets of the groups that hold ParticleIDs
PositionDtypes ==
    {disk.files[i + 1].groups[g]["Coordinates"].dtype :
        <<i, g>> \in {p \in (0..(disk.nfiles - 1)) \X GroupNames :
                         /\ p[1] \in FilesWithIds(p[2])
                         /\ "Coordinates" \in DOMAIN disk.files[p[1] + 1].groups[p[2]]}}

\* C8: a load of mass gives an array of the mass dtype inferred at open from a
\* position dataset, and when it succeeds every <<group, file>> pair whose header
\* MassTable entry is nonzero holds that constant in its slice.
C8_HeaderMass ==
    (log.op = "load" /\ focus.name = "mass" /\ log.created) =>
        /\ mass_dtype \in (IF PositionDtypes = {} THEN {"float64"} ELSE PositionDtypes)
        /\ \A f \in DOMAIN log.arrs : log.arrs[f].dtype = mass_dtype
        /\ log.status = "ok" =>
              \A f \in DOMAIN log.arrs \cap DOMAIN family_to_group_map :
                  LET pairs == TraversalPairs(f)
                      count(k) == CountIn(pairs[k][1], pairs[k][2])
                      offset(k) == SumSeq([j \in 1..(k - 1) |-> count(j)])
                  IN \A k \in 1..Len(pairs) :
                         LET mtab == disk.files[pairs[k][1] + 1].MassTable[TypeIndex(pairs[k][2])]
                         IN mtab # 0 =>
                               \A x \in 1..count(k) :
                                   log.arrs[f].vals[offset(k) + x] = mtab

\* C8 witness: a load of mass over a group with a header mass that also holds a
\* Masses dataset, and a group that takes its mass from a Masses dataset whose
\* dtype is not the mass dtype
C8_Witness ==
    /\ log.op = "load"
    /\ focus.name = "mass"
    /\ log.status = "ok"
    /\ \E i \in 0..(disk.nfiles - 1) :
          /\ i \in FilesWithIds("PartType1")
          /\ disk.files[i + 1].MassTable[1] > 0
          /\ "Masses" \in DOMAIN disk.files[i + 1].groups["PartType1"]
          /\ CountIn(i, "PartType1") > 0
    /\ \E i \in 0..(disk.nfiles - 1) :
          /\ i \in FilesWithIds("PartType0")
          /\ disk.files[i + 1].MassTable[0] = 0
          /\ "Masses" \in DOMAIN disk.files[i + 1].groups["PartType0"]
          /\ disk.files[i + 1].groups["PartType0"]["Masses"].dtype # mass_dtype
          /\ CountIn(i, "PartType0") > 0
    /\ {"gas", "dm"} \subseteq DOMAIN log.arrs

\* C9: a load of a name that is not in loadable_keys(fam) ends with the error of
\* an array that is not on disk, and before that creates no array and opens or
\* probes no file.
C9_NotLoadableRejected ==
    (/\ log.op = "load"
     /\ LoadableKeysStatus(focus.fam) = "ok"
     /\ focus.name \notin LoadableKeysOf(focus.fam))
    => /\ log.status = "OSError"
       /\ ~log.created
       /\ log.arrs = NoFun
       /\ log.last = -1

\* C9 witness: a load that was rejected
C9_Witness ==
    /\ log.op = "load"
    /\ log.status = "OSError"
    /\ focus.name \notin LoadableKeysOf(focus.fam)

\* The pynbody names of the dataset keys of the groups of a Family, over the files
\* that hold the group (withids: and in it the ParticleIDs)
KeysOnDisk(fam, withids) ==
    UNION {{translate_array_name_reverse(key) : key \in DOMAIN disk.files[p[1] + 1].groups[p[2]]} :
           p \in {q \in (0..(disk.nfiles - 1)) \X Range(family_to_group_map[fam]) :
                     /\ q[2] \in DOMAIN disk.files[q[1] + 1].groups
                     /\ withids => q[1] \in FilesWithIds(q[2])}}

C11_GlobalKeysIntersect ==
    loadable_keys # Unset =>
        /\ DOMAIN loadable_family_keys # {}
        /\ \A name \in UNION {loadable_family_keys[f] : f \in DOMAIN loadable_family_keys}
                          \cup loadable_keys :
               name \in loadable_keys
                 <=> \A f \in DOMAIN loadable_family_keys : name \in loadable_family_keys[f]

\* C11 witness: two Families with key sets, a name that only one of them can load
C11_Witness ==
    /\ loadable_keys # Unset
    /\ \E f1, f2 \in DOMAIN loadable_family_keys :
          \E name \in loadable_family_keys[f1] :
              /\ name \notin loadable_family_keys[f2]
              /\ name \notin loadable_keys

\* C12: manager[i] with i below 0 or not below the number of files ends with
\* IndexError.
C12_OutOfRangeIndexError ==
    (log.op = "getitem" /\ (log.index < 0 \/ log.index >= disk.nfiles))
        => log.status = "IndexError"

\* C13: the mode of the manager is the one last asked of reopen_in_mode, and every
\* handle that manager[i] or a step of iteration returns was opened in that mode,
\* also a handle of a file that was cached under another mode before.
C13_HandlesInRequestedMode ==
    /\ log.op = "reopen" => mode = log.req
    /\ log.op \in {"getitem", "next"} =>
          \A k \in 1..Len(log.handles) : log.handles[k].mode = mode

\* C13 witness: a file that was cached in one mode is asked for again right after
\* reopen_in_mode has changed the mode
C13_Witness ==
    /\ prevlog.op = "reopen"
    /\ prevlog.from # prevlog.req
    /\ log.op \in {"getitem", "next"}
    /\ log.status = "ok"
    /\ log.index \in prevlog.cached

\* C14: right after the manager is constructed on a span, no file but file 0 has
\* been opened and _open_files holds no file of index 1 or more; later such a file
\* enters _open_files only by manager[i] or by a step of iteration.
C14_OpenDefersShards ==
    /\ (log.op = "open" /\ log.span) =>
          /\ log.opened \subseteq {0}
          /\ \A i \in DOMAIN open_files : i < 1
    /\ [][\A i \in 1..MaxShards :
              (i \notin DOMAIN open_files /\ i \in DOMAIN open_files')
                  => log'.op \in {"getitem", "next"}]_vars

\* C14 witness: file 1 of a span is opened by the first access after construction
C14_Witness ==
    /\ prevlog.op = "open"
    /\ prevlog.span
    /\ log.op = "getitem"
    /\ log.index = 1
    /\ log.status = "ok"
    /\ 1 \notin log.cached
    /\ 1 \in DOMAIN open_files

\* The number N of a group name "PartTypeN"
TypeNumber(g) ==
    CASE g = "PartType0" -> 0
      [] g = "PartType1" -> 1
      [] g = "PartType2" -> 2
      [] g = "PartType10" -> 10

\* C15: of two Families, the one whose first present group has the smaller type
\* number is laid out first in the flat index space.
C15_FamiliesInNumericOrder ==
    \A f1, f2 \in DOMAIN family_to_group_map :
        TypeNumber(family_to_group_map[f1][1]) < TypeNumber(family_to_group_map[f2][1])
            => family_slice[f1].stop <= family_slice[f2].start

\* The candidate groups of entry k of the type map that are a key of some file
PresentCandidates(k) ==
    {g \in Range(type_map[k].groups) : \E i \in 0..(disk.nfiles - 1) : HasGroup(disk, i, g)}

\* The place of group g in the candidates of entry k of the type map
CandidatePlace(k, g) == CHOOSE j \in 1..Len(type_map[k].groups) : type_map[k].groups[j] = g

\* C16: _family_to_group_map has an entry for a Family exactly when one of its
\* candidate groups is a key of some file; the entry holds those candidates, each
\* once, in the order of the type map.
C16_FamilyToGroups ==
    \A k \in 1..Len(type_map) :
        LET fam == type_map[k].fam
        IN IF PresentCandidates(k) = {} THEN fam \notin DOMAIN family_to_group_map
           ELSE /\ fam \in DOMAIN family_to_group_map
                /\ Range(family_to_group_map[fam]) = PresentCandidates(k)
                /\ Len(family_to_group_map[fam]) = Cardinality(PresentCandidates(k))
                /\ \A a, b \in 1..Len(family_to_group_map[fam]) :
                       a < b => CandidatePlace(k, family_to_group_map[fam][a])
                                    < CandidatePlace(k, family_to_group_map[fam][b])

\* C16 witness: a Family none of whose candidates is in any file, and another with
\* two candidates, the first in no file and the second in more than one
C16_Witness ==
    \E k1, k2 \in 1..Len(type_map) :
        /\ PresentCandidates(k1) = {}
        /\ Len(type_map[k2].groups) = 2
        /\ PresentCandidates(k2) = {type_map[k2].groups[2]}
        /\ Cardinality({i \in 0..(disk.nfiles - 1) :
                           HasGroup(disk, i, type_map[k2].groups[2])}) > 1

\* 10^x is within the relative tolerance 1e-3 of e * 10^-9
WithinRel(x, e) ==
    IF x > 0 \/ x < -9 THEN FALSE
    ELSE LET c == Pow10(x + 9)
             diff == IF c >= e THEN c - e ELSE e - c
         IN diff <= e \div 1000

\* C17: with a declared conversion factor, _get_units_from_description returns a
\* unit only if the inferred factor is within relative tolerance 1e-3 of it, and
\* once the description is parsed a factor that is not raises UnitsException.
C17_UnitOnlyWithinTolerance ==
    (call.fn = "get_units_from_description" /\ ret # NoCall) =>
        \A e \in call.expected :
            /\ ret.status = "ok" => WithinRel(ret.conversion, e)
            /\ (ret.status \in {"ok", "UnitsException"} /\ ~WithinRel(ret.conversion, e))
                  => ret.status = "UnitsException"

\* The default branch of _init_unit_information was taken and nothing else done
DefaultUnitsTaken ==
    /\ ret.status = "ok"
    /\ ret.warned = {"no unit information"}
    /\ ret.units = DefaultUnits
    /\ ret.read = {}
    /\ ~ret.unitvar

ParameterSource(f) ==
    IF f.Parameters.present /\ f.Parameters.keys # {} THEN "Parameters" ELSE "Header"

ProbedContainer ==
    IF call.fs[PathName(call.f)].valid THEN call.fs[PathName(call.f)]
    ELSE call.fs[PathName(call.f) \o ".0.hdf5"]

\* The container holds the probe key of the class
HoldsProbeKey(cls, c) ==
    CASE cls \in {"GadgetHDFSnap", "ArepoHDFSnap"} ->
            {"PartType0", "PartType1", "PartType2", "PartType3", "PartType4", "PartType5"}
                \cap c.keys # {}
      [] cls = "SubFindHDFSnap" -> "FOF" \in c.keys
      [] cls = "EagleLikeHDFSnap" -> "PartType1/SubGroupNumber" \in c.keys

\* The container passes the attribute check of the class, if the class has one
HoldsProbeAttr(cls, c) ==
    cls = "ArepoHDFSnap" => ("Config" \in c.keys /\ "VORONOI" \in c.attrs["Config"])

\* C19: _can_load returns True exactly when the path, or else the file of that name
\* with ".0.hdf5" added, is a valid container that holds the probe key of the class
\* and passes its attribute check.
C19_CanLoadIff ==
    (call.fn = "can_load" /\ ret # NoCall) =>
        (ret.value <=> /\ ProbedContainer.valid
                       /\ HoldsProbeKey(call.cls, ProbedContainer)
                       /\ HoldsProbeAttr(call.cls, ProbedContainer))

\* The first of the candidate native names, in the order of the name table, that
\* group g of file i holds
FirstHeld(i, g) ==
    LET names == translate_array_name(focus.name)
        k == CHOOSE j \in 1..Len(names) :
                 /\ names[j] \in CandidatesHeld(i, g)
                 /\ \A m \in 1..(j - 1) : names[m] \notin CandidatesHeld(i, g)
    IN names[k]

\* C20: in a Family-scoped load that succeeds, the slice of a <<group, file>> pair
\* that holds more than one candidate dataset has the values of the first of them
\* in the order of the name table, whatever the other pairs hold.
C20_FillReadsFirstCandidate ==
    (log.op = "load" /\ log.status = "ok" /\ focus.fam # None) =>
        LET arr == log.arrs[focus.fam]
            pairs == TraversalPairs(focus.fam)
            count(k) == CountIn(pairs[k][1], pairs[k][2])
            offset(k) == SumSeq([j \in 1..(k - 1) |-> count(j)])
        IN \A k \in 1..Len(pairs) :
               (/\ Cardinality(CandidatesHeld(pairs[k][1], pairs[k][2])) > 1
                /\ ~FromHeader(pairs[k][1], pairs[k][2])) =>
                   LET ds == disk.files[pairs[k][1] + 1].groups[pairs[k][2]]
                                 [FirstHeld(pairs[k][1], pairs[k][2])]
                   IN \A x \in 1..(count(k) * arr.dy) :
                          arr.vals[offset(k) * arr.dy + x] = ds.vals[x]

\* The families a load of scope focus.fam fills
LoadedFamilies ==
    IF focus.fam = None THEN Range(FamiliesOf(family_slice))
    ELSE {focus.fam} \cap DOMAIN family_to_group_map

\* The <<file, group>> pairs of the loaded families that hold particles and none of
\* the candidate datasets of the array, and take nothing from the header
ExhaustedPairs ==
    {p \in UNION {Range(TraversalPairs(f)) : f \in LoadedFamilies} :
        /\ CountIn(p[1], p[2]) > 0
        /\ CandidatesHeld(p[1], p[2]) = {}
        /\ ~FromHeader(p[1], p[2])}

\* C21: a load that reaches a <<group, file>> pair with particles in which no
\* candidate native name is present does not complete: it ends with the error of
\* an array that is not loadable (OSError) or with KeyError.
C21_ExhaustedCandidatesFail ==
    (log.op = "load" /\ ExhaustedPairs # {}) => log.status \in {"KeyError", "OSError"}

\* The unit __get_dtype_dims_and_units resolves for the array of the session from
\* the representative dataset
ResolvedUnit ==
    get_dtype_dims_and_units(disk, focus.fam, translate_array_name(focus.name)).units

\* C22: after a load that succeeds the array carries the unit resolved from the
\* representative dataset, and the default unit of the array when none was
\* resolved (no unit metadata, or a constant from the header); never no unit.
C22_UnitOrDefault ==
    (log.op = "load" /\ log.status = "ok") =>
        \A f \in DOMAIN log.arrs :
            log.arrs[f].units = IF ResolvedUnit = "NoUnit" THEN set_default_units(focus.name)
                                ELSE ResolvedUnit

\* The places of the unit variables that occur in the description of the call, each
\* with the name of the variable: the first occurrence, as find() gives it
SymbolPlaces ==
    {[name |-> hdf_unitvar[k].name, p |-> Find(call.description, hdf_unitvar[k].name)] :
        k \in {j \in 1..Len(hdf_unitvar) : hdf_unitvar[j].name \in Range(call.description)}}

\* -1 when a "/" stands right before place p of the description of the call, else 1
SlashSign(p) == IF p > 1 /\ call.description[p - 1] = "/" THEN -1 ELSE 1

\* Scanning for the index of the symbol at place p reaches the end of the
\* description: the symbol is its last text, or a "^" follows it and the caret, or
\* the index written after it, ends the description
ScanReachesEnd(p) ==
    LET n == Len(call.description)
    IN \/ p = n
       \/ /\ call.description[p + 1] = "^"
          /\ \A q \in (p + 2)..n :
                \/ call.description[q] \in Digits
                \/ q = p + 2 /\ call.description[q] = "-"

\* C23: when scanning for the index of a symbol reaches the end of the description,
\* _get_units_from_description raises no IndexError and the symbol has power 1
\* (-1 after a "/").
C23_PastEndIsNoExponent ==
    (call.fn = "get_units_from_description" /\ ret # NoCall) =>
        \A s \in SymbolPlaces :
            ScanReachesEnd(s.p) =>
                /\ ret.status # "IndexError"
                /\ ret.status = "ok" => ret.units[s.name] = SlashSign(s.p)

\* Where the digits of the index of the symbol at place p begin: after the "^"
\* that follows the symbol, and after a "-" that follows the caret
IndexStart(p) ==
    IF p + 2 <= Len(call.description) /\ call.description[p + 2] = "-" THEN p + 3 ELSE p + 2

\* The digits written from place q of the description of the call on
RECURSIVE DigitsFrom(_)
DigitsFrom(q) ==
    IF q > Len(call.description) \/ call.description[q] \notin Digits THEN <<>>
    ELSE <<call.description[q]>> \o DigitsFrom(q + 1)

\* A "^" follows the symbol at place p right away
HasCaret(p) == p < Len(call.description) /\ call.description[p + 1] = "^"

\* The symbol at place p is written with or without an index: no caret follows it,
\* or a caret and, after an optional "-", a number
WellWritten(p) == HasCaret(p) => DigitsFrom(IndexStart(p)) # <<>>

\* The exponent s * e of the symbol at place p as the description writes it
WrittenExponent(p) ==
    SlashSign(p) *
        (IF ~HasCaret(p) THEN 1
         ELSE (IF IndexStart(p) = p + 3 THEN -1 ELSE 1) * NumberOf(DigitsFrom(IndexStart(p))))

\* C24: when every symbol of the description is written with or without an index,
\* _get_units_from_description parses it and the unit it infers is the product of
\* the symbols to the powers s * e: s = -1 after a "/", else 1; e the number after
\* a "^" that follows the symbol, negated after "^-", or 1 without a caret.
C24_ExponentIsSignTimesIndex ==
    (/\ call.fn = "get_units_from_description"
     /\ ret # NoCall
     /\ \A s \in SymbolPlaces : WellWritten(s.p))
    => /\ ret.status \in {"ok", "UnitsException"}
       /\ \A k \in 1..Len(hdf_unitvar) :
              ret.units[hdf_unitvar[k].name] =
                  IF \E s \in SymbolPlaces : s.name = hdf_unitvar[k].name
                  THEN WrittenExponent(Find(call.description, hdf_unitvar[k].name))
                  ELSE 0

\* The <<file, group>> pairs the fill step of the load walks, in order: the pairs
\* of each loaded family, the families in the order of their slices
FillOrder ==
    FlattenSeq([j \in 1..Len(FamiliesOf(family_slice)) |->
                   IF FamiliesOf(family_slice)[j] \in LoadedFamilies
                   THEN TraversalPairs(FamiliesOf(family_slice)[j]) ELSE <<>>])

\* The family a group belongs to
FamilyOfGroup(g) ==
    CHOOSE f \in DOMAIN family_to_group_map : g \in Range(family_to_group_map[f])

\* Where the slice of the pair p starts in the array of its family
SliceStart(p) ==
    LET pairs == TraversalPairs(FamilyOfGroup(p[2]))
        k == CHOOSE j \in 1..Len(pairs) : pairs[j] = p
    IN SumSeq([j \in 1..(k - 1) |-> CountIn(pairs[j][1], pairs[j][2])])

\* The pair p holds particles and one candidate dataset of the array, whose element
\* count is not that of the slice of the pair in an array of dy values a particle
Mismatched(p, dy) ==
    /\ CountIn(p[1], p[2]) > 0
    /\ Cardinality(CandidatesHeld(p[1], p[2])) = 1
    /\ ~FromHeader(p[1], p[2])
    /\ ProdSeq(disk.files[p[1] + 1].groups[p[2]]
                   [CHOOSE n \in CandidatesHeld(p[1], p[2]) : TRUE].shape)
         # CountIn(p[1], p[2]) * dy

\* C25: when the fill step of a load comes to a <<group, file>> pair whose dataset
\* has another element count than the slice of the pair (particle count times
\* values per particle), the load ends with AssertionError and the slice of the
\* pair is left as it was created, all zero.
C25_MismatchAsserts ==
    (log.op = "load" /\ log.created /\ ExhaustedPairs = {}) =>
        \A k \in 1..Len(FillOrder) :
            LET p == FillOrder[k]
                arr == log.arrs[FamilyOfGroup(p[2])]
            IN Mismatched(p, arr.dy) =>
                  /\ log.status = "AssertionError"
                  /\ \A x \in 1..(CountIn(p[1], p[2]) * arr.dy) :
                         arr.vals[SliceStart(p) * arr.dy + x] = 0

\* C25 witness: a load that copied the first pair of its walk and ended with the
\* assertion at a later pair whose dataset has another element count
C25_Witness ==
    /\ log.op = "load"
    /\ log.status = "AssertionError"
    /\ ExhaustedPairs = {}
    /\ Len(FillOrder) >= 2
    /\ LET first == FillOrder[1]
           arr == log.arrs[FamilyOfGroup(first[2])]
       IN /\ CountIn(first[1], first[2]) > 0
          /\ ~Mismatched(first, arr.dy)
          /\ arr.vals[1] # 0
    /\ \E k \in 2..Len(FillOrder) :
          Mismatched(FillOrder[k], log.arrs[FamilyOfGroup(FillOrder[k][2])].dy)

\* The shape of the one candidate dataset the first group of the scope holds in
\* file 0
RepresentativeShape ==
    disk.files[1].groups[FirstGroup(focus.fam)]
        [CHOOSE n \in CandidatesHeld(0, FirstGroup(focus.fam)) : TRUE].shape

\* The representative dataset of the load when file 0 settles it: the first group
\* of the scope is in file 0 with its ParticleIDs and holds one candidate dataset
\* of the array, which is not empty
RepresentativeInFile0 ==
    /\ LoadedFamilies # {}
    /\ 0 \in FilesWithIds(FirstGroup(focus.fam))
    /\ Cardinality(CandidatesHeld(0, FirstGroup(focus.fam))) = 1
    /\ ~FromHeader(0, FirstGroup(focus.fam))
    /\ RepresentativeShape[1] # 0

\* C26: the number of values per particle of a loaded array is 1 for a 1-D
\* representative dataset and the second dimension for a 2-D one, except that a
\* representative whose first dimension is not the particle count of its group in
\* its file gives its whole element count divided by that particle count.
C26_DimsFromRepresentative ==
    (log.op = "load" /\ log.created /\ RepresentativeInFile0) =>
        \A f \in DOMAIN log.arrs :
            log.arrs[f].dy =
                IF RepresentativeShape[1] # CountIn(0, FirstGroup(focus.fam))
                THEN ProdSeq(RepresentativeShape) \div CountIn(0, FirstGroup(focus.fam))
                ELSE IF Len(RepresentativeShape) = 2 THEN RepresentativeShape[2]
                ELSE 1

\* C27: in every state of a manager every cached handle was opened in the current
\* mode of the manager and is kept under the index of a file of the snapshot.
C27_CacheInModeAndRange ==
    \A i \in DOMAIN open_files :
        /\ open_files[i] = mode
        /\ i \in 0..(disk.nfiles - 1)

\* C27 witness: a generator that had yielded file 0 goes on after the manager,
\* with handles cached, was reopened in the other mode, and caches the next file
C27_Witness ==
    /\ log.op = "next"
    /\ log.status = "ok"
    /\ log.index > 0
    /\ prevlog.op = "reopen"
    /\ prevlog.req # prevlog.from
    /\ prevlog.cached # {}
    /\ log.index \in DOMAIN open_files

\* C28: manager[i] for a file index that is not cached opens, in the current mode,
\* every file up to i that is not cached, and no file after i, and returns the
\* handle of file i; for a cached index it opens nothing and returns the cached
\* handle.  Handles that were cached stay as they are.
C28_GetItemOpensUpTo ==
    [][(/\ log'.op = "getitem"
        /\ budget' = budget - 1
        /\ log'.index \in 0..(disk.nfiles - 1))
       => /\ log'.status = "ok"
          /\ IF log'.index \in DOMAIN open_files
             THEN /\ open_files' = open_files
                  /\ log'.handles = <<[index |-> log'.index, mode |-> open_files[log'.index]]>>
             ELSE /\ DOMAIN open_files' = DOMAIN open_files \cup 0..log'.index
                  /\ \A j \in DOMAIN open_files : open_files'[j] = open_files[j]
                  /\ \A j \in (0..log'.index) \ DOMAIN open_files : open_files'[j] = mode
                  /\ log'.handles = <<[index |-> log'.index, mode |-> mode]>>]_vars

\* C28 witness: manager[1] on three files with file 0 alone cached: file 1 is
\* opened and file 2 is not
C28_Witness ==
    /\ log.op = "getitem"
    /\ log.status = "ok"
    /\ log.index = 1
    /\ log.cached = {0}
    /\ disk.nfiles > 2
    /\ DOMAIN open_files = {0, 1}
====
